---- MODULE Spec2Model ----
(***************************************************************************)
(* Contacts REST backend: token service, cache-aside profile store,        *)
(* contact repository, user repository and the /users routes.              *)
(***************************************************************************)
EXTENDS Integers, Sequences, FiniteSets, TLC

VARIABLES
    users,       \* rows of the users table
    contacts,    \* rows of the contacts table
    contactSeq,  \* highest id the contacts primary key has handed out
    cache,       \* Redis: set of [key, val, exp] entries
    redisUp,     \* whether the Redis client answers or raises
    now,         \* wall clock, seconds
    today,       \* date.today()
    env,         \* process environment read at import time and by handlers
    resp,        \* the last call: its operation, inputs and outcome
    purpose,     \* what the token presented in the last call was issued for
    inflight,    \* requests being served step by step: position and locals of each
    uploads      \* Cloudinary: the files cloudinary.uploader.upload has stored

vars ==
    <<users, contacts, contactSeq, cache, redisUp, now, today, env, resp, purpose, inflight,
      uploads>>

\* Python's None, and the value of resp before any call.
NoneVal == [none |-> TRUE]
NoResp == [op |-> "init"]
\* No request is between two of its steps: every handler runs to its end.
NoRequests == << >>

(***************************************************************************)
(* Bounds of the model.                                                    *)
(***************************************************************************)
\* Cap on the contacts id sequence: create_contact is not taken beyond it.
MaxContactId == 2
\* Largest offset the list route is called with.
MaxSkip == 1
\* Birthdays are drawn from the day before today to this many days after it.
MaxAhead == 8
\* Cap on the clock of the cache and token specifications.
MaxClock == 3

(***************************************************************************)
(* datetime.date                                                           *)
(***************************************************************************)
IsLeap(y) == (y % 4 = 0 /\ y % 100 # 0) \/ y % 400 = 0

DaysInMonth(y, m) ==
    IF m = 2 THEN (IF IsLeap(y) THEN 29 ELSE 28)
    ELSE IF m \in {4, 6, 9, 11} THEN 30 ELSE 31

Date(y, m, d) == [y |-> y, m |-> m, d |-> d]

\* date(y, m, d) raises ValueError exactly when the day does not exist.
ValidDate(y, m, d) == m \in 1..12 /\ d >= 1 /\ d <= DaysInMonth(y, m)

NextDay(dt) ==
    IF dt.d < DaysInMonth(dt.y, dt.m) THEN Date(dt.y, dt.m, dt.d + 1)
    ELSE IF dt.m < 12 THEN Date(dt.y, dt.m + 1, 1)
    ELSE Date(dt.y + 1, 1, 1)

PrevDay(dt) ==
    IF dt.d > 1 THEN Date(dt.y, dt.m, dt.d - 1)
    ELSE IF dt.m > 1 THEN Date(dt.y, dt.m - 1, DaysInMonth(dt.y, dt.m - 1))
    ELSE Date(dt.y - 1, 12, 31)

\* date + timedelta(days=k)
RECURSIVE AddDays(_, _)
AddDays(dt, k) ==
    IF k = 0 THEN dt
    ELSE IF k > 0 THEN AddDays(NextDay(dt), k - 1)
    ELSE AddDays(PrevDay(dt), k + 1)

\* date.__le__
DateLE(a, b) ==
    \/ a.y < b.y
    \/ a.y = b.y /\ a.m < b.m
    \/ a.y = b.y /\ a.m = b.m /\ a.d <= b.d

(***************************************************************************)
(* Python values                                                           *)
(***************************************************************************)
\* dict.get(k): the value, or None when the key is absent.
Get(d, k) == IF k \in DOMAIN d THEN d[k] ELSE NoneVal

\* timedelta(seconds=n); Optional[timedelta] is one of these or None.
Seconds(n) == [seconds |-> n]
Minutes(n) == Seconds(60 * n)
Days(n) == Seconds(86400 * n)

\* `expires_delta or default`: None and the zero timedelta are both falsy.
OrDefault(expires_delta, default) ==
    IF expires_delta = NoneVal \/ expires_delta = Seconds(0)
    THEN default ELSE expires_delta

(***************************************************************************)
(* app/utils/auth.py: keys, lifetimes, password hashing, tokens            *)
(***************************************************************************)
Unset == "<unset>"
\* os.getenv(name, default)
Getenv(name, default) == IF env[name] = Unset THEN default ELSE env[name]

SECRET_KEY == Getenv("SECRET_KEY", "supersecretkey")
ACCESS_TOKEN_EXPIRE_MINUTES == 30
REFRESH_SECRET_KEY == Getenv("REFRESH_SECRET_KEY", SECRET_KEY)
REFRESH_TOKEN_EXPIRE_DAYS == 7
RESET_SECRET_KEY == Getenv("RESET_SECRET_KEY", SECRET_KEY)
RESET_TOKEN_EXPIRE_MINUTES == 15

\* pwd_context.hash: a salted one-way hash; the salt is drawn by the caller.
get_password_hash(password, salt) == [salt |-> salt, digest |-> <<salt, password>>]

\* pwd_context.verify, False on a malformed hash.
verify_password(plain_password, hashed_password) ==
    /\ DOMAIN hashed_password = {"salt", "digest"}
    /\ hashed_password.digest = <<hashed_password.salt, plain_password>>

\* A signed JWT: its claims and the key whose signature it carries.  Strings
\* that are no JWT at all carry no claims.
Jwt(payload, key) == [payload |-> payload, key |-> key]
MalformedToken == [payload |-> NoneVal, key |-> "<malformed>"]
EmptyToken == [payload |-> NoneVal, key |-> "<empty>"]

\* to_encode = data.copy(); to_encode.update({"exp": expire}): an exp that
\* the claims already hold is replaced.  The claims are JSON numbers,
\* strings and null under string names, which the token carries unchanged.
_encode(data, key, expires_delta) ==
    LET expire == now + OrDefault(expires_delta, Minutes(ACCESS_TOKEN_EXPIRE_MINUTES)).seconds
    IN  Jwt(("exp" :> expire) @@ data, key)

\* jwt.decode raises JWTError on a string that is no JWT, on a signature made
\* with another key, on exp < now and, as no audience is passed to it, on
\* claims that hold an aud.
_decode_NoExpiry(token, key) ==
    IF token.payload = NoneVal THEN NoneVal
    ELSE IF token.key # key THEN NoneVal
    ELSE IF "aud" \in DOMAIN token.payload THEN NoneVal
    ELSE token.payload

_decode_AccessKey(token, key) ==
    IF token.payload = NoneVal THEN NoneVal
    ELSE IF token.key # SECRET_KEY THEN NoneVal
    ELSE IF token.payload.exp < now THEN NoneVal
    ELSE IF "aud" \in DOMAIN token.payload THEN NoneVal
    ELSE token.payload

_decode(token, key) ==
    IF token.payload = NoneVal THEN NoneVal
    ELSE IF token.key # key THEN NoneVal
    ELSE IF token.payload.exp < now THEN NoneVal
    ELSE IF "aud" \in DOMAIN token.payload THEN NoneVal
    ELSE token.payload

create_access_token(data, expires_delta) ==
    _encode(data, SECRET_KEY, OrDefault(expires_delta, Minutes(ACCESS_TOKEN_EXPIRE_MINUTES)))

decode_access_token(token) == _decode(token, SECRET_KEY)

create_refresh_token(data, expires_delta) ==
    _encode(data, REFRESH_SECRET_KEY, OrDefault(expires_delta, Days(REFRESH_TOKEN_EXPIRE_DAYS)))

decode_refresh_token(token) == _decode(token, REFRESH_SECRET_KEY)

create_reset_token(user_id, expires_delta) ==
    _encode([user_id |-> user_id], RESET_SECRET_KEY,
            OrDefault(expires_delta, Minutes(RESET_TOKEN_EXPIRE_MINUTES)))

\* Optional[int]: Some(n) or None.
Some(n) == [some |-> n]

verify_reset_token(token) ==
    LET payload == _decode(token, RESET_SECRET_KEY)
    IN  IF payload = NoneVal \/ "user_id" \notin DOMAIN payload THEN NoneVal
        ELSE Some(payload.user_id)

\* The token the same call returned `age` seconds ago.
IssuedEarlier(token, age) ==
    Jwt([token.payload EXCEPT !.exp = @ - age], token.key)

(***************************************************************************)
(* Outcome of a call: a returned value or a raised HTTPException.          *)
(***************************************************************************)
Return(v) == [raised |-> FALSE, status |-> 200, detail |-> "", value |-> v]
Raise(status, detail) == [raised |-> TRUE, status |-> status, detail |-> detail, value |-> NoneVal]

\* What the caller of operation `op` with inputs `req` observes.
Outcome(op, req, result) ==
    [op |-> op, req |-> req, status |-> result.status,
     detail |-> result.detail, body |-> result.value]

HTTP_401_UNAUTHORIZED == 401
HTTP_404_NOT_FOUND == 404
HTTP_409_CONFLICT == 409
\* An exception no handler catches (IntegrityError, RedisError).
HTTP_500_INTERNAL_SERVER_ERROR == 500

(***************************************************************************)
(* app/crud/contact.py                                                     *)
(***************************************************************************)
_get_user_id(token) ==
    LET payload == IF token # EmptyToken THEN decode_access_token(token) ELSE NoneVal
    IN  IF payload = NoneVal \/ "user_id" \notin DOMAIN payload \/ payload.user_id = 0
        THEN Raise(HTTP_401_UNAUTHORIZED, "Invalid or missing access token")
        ELSE Return(payload.user_id)

ContactRow_NoExtra(id, contact, user_id) ==
    [id |-> id, first_name |-> contact.first_name, last_name |-> contact.last_name,
     email |-> contact.email, phone |-> contact.phone, birthday |-> contact.birthday,
     extra |-> "", user_id |-> user_id]

ContactRow_PayloadOwner(id, contact, user_id) ==
    [id |-> id, first_name |-> contact.first_name, last_name |-> contact.last_name,
     email |-> contact.email, phone |-> contact.phone, birthday |-> contact.birthday,
     extra |-> contact.extra,
     user_id |-> IF "user_id" \in DOMAIN contact THEN contact.user_id ELSE user_id]

\* Contact(...) as persisted with primary key `id`: the payload's user_id is
\* not copied, the owner is the token's user.
ContactRow(id, contact, user_id) ==
    [id |-> id, first_name |-> contact.first_name, last_name |-> contact.last_name,
     email |-> contact.email, phone |-> contact.phone, birthday |-> contact.birthday,
     extra |-> contact.extra, user_id |-> user_id]

SetMax(S) == CHOOSE x \in S : \A y \in S : y <= x

\* The primary key the database gives the next contacts row: SQLite's rowid
\* is max(rowid) + 1, PostgreSQL draws from a sequence that never goes back.
NextContactId ==
    IF env.DATABASE_URL = "sqlite"
    THEN SetMax({c.id : c \in contacts} \cup {0}) + 1
    ELSE contactSeq + 1

\* db.query(Contact).filter(Contact.id == contact_id, Contact.user_id == user_id)
OwnedById(contact_id, user_id) ==
    {c \in contacts : c.id = contact_id /\ c.user_id = user_id}

OwnedBy_Everyone(user_id) == contacts

\* db.query(Contact).filter(Contact.user_id == user_id)
OwnedBy(user_id) == {c \in contacts : c.user_id = user_id}

create_contact_PerOwner(contact, token) ==
    LET auth == _get_user_id(token)
        req == [token |-> token, contact |-> contact]
    IN  IF auth.raised
        THEN /\ resp' = Outcome("create_contact", req, auth)
             /\ UNCHANGED <<contacts, contactSeq>>
        ELSE IF \E c \in OwnedBy(auth.value) : c.email = contact.email
        THEN /\ resp' = Outcome("create_contact", req,
                                Raise(HTTP_409_CONFLICT, "Contact with this email already exists"))
             /\ UNCHANGED <<contacts, contactSeq>>
        ELSE LET obj == ContactRow(NextContactId, contact, auth.value)
             IN  /\ obj.id <= MaxContactId
                 /\ contacts' = contacts \cup {obj}
                 /\ contactSeq' = IF obj.id > contactSeq THEN obj.id ELSE contactSeq
                 /\ resp' = Outcome("create_contact", req, Return(obj))

create_contact_EmailFirst(contact, token) ==
    LET auth == _get_user_id(token)
        req == [token |-> token, contact |-> contact]
    IN  IF \E c \in contacts : c.email = contact.email
        THEN /\ resp' = Outcome("create_contact", req,
                                Raise(HTTP_409_CONFLICT, "Contact with this email already exists"))
             /\ UNCHANGED <<contacts, contactSeq>>
        ELSE IF auth.raised
        THEN /\ resp' = Outcome("create_contact", req, auth)
             /\ UNCHANGED <<contacts, contactSeq>>
        ELSE LET obj == ContactRow(NextContactId, contact, auth.value)
             IN  /\ obj.id <= MaxContactId
                 /\ contacts' = contacts \cup {obj}
                 /\ contactSeq' = IF obj.id > contactSeq THEN obj.id ELSE contactSeq
                 /\ resp' = Outcome("create_contact", req, Return(obj))

create_contact(contact, token) ==
    LET auth == _get_user_id(token)
        req == [token |-> token, contact |-> contact]
    IN  IF auth.raised
        THEN /\ resp' = Outcome("create_contact", req, auth)
             /\ UNCHANGED <<contacts, contactSeq>>
        ELSE IF \E c \in contacts : c.email = contact.email
        THEN /\ resp' = Outcome("create_contact", req,
                                Raise(HTTP_409_CONFLICT, "Contact with this email already exists"))
             /\ UNCHANGED <<contacts, contactSeq>>
        ELSE LET obj == ContactRow(NextContactId, contact, auth.value)
             IN  /\ obj.id <= MaxContactId
                 /\ contacts' = contacts \cup {obj}
                 /\ contactSeq' = IF obj.id > contactSeq THEN obj.id ELSE contactSeq
                 /\ resp' = Outcome("create_contact", req, Return(obj))

Min(a, b) == IF a < b THEN a ELSE b
Max(a, b) == IF a > b THEN a ELSE b

\* .offset(skip).limit(limit).all() over rows in the order the database
\* yields them, which no ORDER BY fixes: any `limit` rows after any `skip`.
Page(rows, skip, limit) ==
    {S \in SUBSET rows : Cardinality(S) = Min(limit, Max(0, Cardinality(rows) - skip))}

get_contacts(skip, limit, token) ==
    LET auth == _get_user_id(token)
        req == [token |-> token, skip |-> skip, limit |-> limit]
    IN  /\ UNCHANGED <<contacts, contactSeq>>
        /\ IF auth.raised
           THEN resp' = Outcome("get_contacts", req, auth)
           ELSE \E page \in Page(OwnedBy(auth.value), skip, limit) :
                    resp' = Outcome("get_contacts", req, Return(page))

get_contact(contact_id, token) ==
    LET auth == _get_user_id(token)
        req == [token |-> token, contact_id |-> contact_id]
    IN  /\ UNCHANGED <<contacts, contactSeq>>
        /\ IF auth.raised
           THEN resp' = Outcome("get_contact", req, auth)
           ELSE IF OwnedById(contact_id, auth.value) = {}
           THEN resp' = Outcome("get_contact", req, Raise(HTTP_404_NOT_FOUND, "Contact not found"))
           ELSE \E obj \in OwnedById(contact_id, auth.value) :
                    resp' = Outcome("get_contact", req, Return(obj))

update_contact_NoIndex(contact_id, contact, token) ==
    LET auth == _get_user_id(token)
        req == [token |-> token, contact_id |-> contact_id, contact |-> contact]
    IN  IF auth.raised
        THEN /\ resp' = Outcome("update_contact", req, auth)
             /\ UNCHANGED <<contacts, contactSeq>>
        ELSE IF OwnedById(contact_id, auth.value) = {}
        THEN /\ resp' = Outcome("update_contact", req, Raise(HTTP_404_NOT_FOUND, "Contact not found"))
             /\ UNCHANGED <<contacts, contactSeq>>
        ELSE \E obj \in OwnedById(contact_id, auth.value) :
             LET new == ContactRow(obj.id, contact, obj.user_id)
             IN  /\ contacts' = (contacts \ {obj}) \cup {new}
                 /\ resp' = Outcome("update_contact", req, Return(new))
                 /\ UNCHANGED contactSeq

update_contact(contact_id, contact, token) ==
    LET auth == _get_user_id(token)
        req == [token |-> token, contact_id |-> contact_id, contact |-> contact]
    IN  IF auth.raised
        THEN /\ resp' = Outcome("update_contact", req, auth)
             /\ UNCHANGED <<contacts, contactSeq>>
        ELSE IF OwnedById(contact_id, auth.value) = {}
        THEN /\ resp' = Outcome("update_contact", req, Raise(HTTP_404_NOT_FOUND, "Contact not found"))
             /\ UNCHANGED <<contacts, contactSeq>>
        ELSE \E obj \in OwnedById(contact_id, auth.value) :
             LET new == ContactRow(obj.id, contact, obj.user_id)
             IN  IF \E c \in contacts \ {obj} : c.email = new.email
                 THEN \* the unique index on contacts.email rejects the commit
                      /\ resp' = Outcome("update_contact", req,
                                         Raise(HTTP_500_INTERNAL_SERVER_ERROR, "IntegrityError"))
                      /\ UNCHANGED <<contacts, contactSeq>>
                 ELSE /\ contacts' = (contacts \ {obj}) \cup {new}
                      /\ resp' = Outcome("update_contact", req, Return(new))
                      /\ UNCHANGED contactSeq

delete_contact_AllOwned(contact_id, token) ==
    LET auth == _get_user_id(token)
        req == [token |-> token, contact_id |-> contact_id]
    IN  IF auth.raised
        THEN /\ resp' = Outcome("delete_contact", req, auth)
             /\ UNCHANGED <<contacts, contactSeq>>
        ELSE IF OwnedById(contact_id, auth.value) = {}
        THEN /\ resp' = Outcome("delete_contact", req, Raise(HTTP_404_NOT_FOUND, "Contact not found"))
             /\ UNCHANGED <<contacts, contactSeq>>
        ELSE /\ contacts' = contacts \ OwnedBy(auth.value)
             /\ resp' = Outcome("delete_contact", req, Return(TRUE))
             /\ UNCHANGED contactSeq

delete_contact(contact_id, token) ==
    LET auth == _get_user_id(token)
        req == [token |-> token, contact_id |-> contact_id]
    IN  IF auth.raised
        THEN /\ resp' = Outcome("delete_contact", req, auth)
             /\ UNCHANGED <<contacts, contactSeq>>
        ELSE IF OwnedById(contact_id, auth.value) = {}
        THEN /\ resp' = Outcome("delete_contact", req, Raise(HTTP_404_NOT_FOUND, "Contact not found"))
             /\ UNCHANGED <<contacts, contactSeq>>
        ELSE \E obj \in OwnedById(contact_id, auth.value) :
             /\ contacts' = contacts \ {obj}
             /\ resp' = Outcome("delete_contact", req, Return(TRUE))
             /\ UNCHANGED contactSeq

\* str.lower() / SQL lower() on one character: a capital letter is folded,
\* every other character is returned as it is.
Lower(ch) ==
    LET capitals == <<"A", "B", "C", "D", "E", "F", "G", "H", "I", "J", "K", "L", "M",
                      "N", "O", "P", "Q", "R", "S", "T", "U", "V", "W", "X", "Y", "Z">>
        smalls == <<"a", "b", "c", "d", "e", "f", "g", "h", "i", "j", "k", "l", "m",
                    "n", "o", "p", "q", "r", "s", "t", "u", "v", "w", "x", "y", "z">>
    IN  IF \E i \in DOMAIN capitals : capitals[i] = ch
        THEN smalls[CHOOSE i \in DOMAIN capitals : capitals[i] = ch]
        ELSE ch

\* Text is a sequence of characters.
LowerText(text) == [i \in DOMAIN text |-> Lower(text[i])]

\* SQL LIKE: % stands for any run of characters, _ for any one character,
\* every other character for itself.
RECURSIVE Like(_, _)
Like(text, pattern) ==
    IF pattern = <<>> THEN text = <<>>
    ELSE IF Head(pattern) = "%"
    THEN \E k \in 0..Len(text) : Like(SubSeq(text, k + 1, Len(text)), Tail(pattern))
    ELSE IF text = <<>> THEN FALSE
    ELSE IF Head(pattern) = "_" THEN Like(Tail(text), Tail(pattern))
    ELSE Head(pattern) = Head(text) /\ Like(Tail(text), Tail(pattern))

\* column.ilike(pattern): LIKE on the lowered operands.
ilike(column, pattern) == Like(LowerText(column), LowerText(pattern))

search_contacts(query, token) ==
    LET auth == _get_user_id(token)
        req == [token |-> token, query |-> query]
        q == <<"%">> \o query \o <<"%">>
    IN  /\ UNCHANGED <<contacts, contactSeq>>
        /\ IF auth.raised
           THEN resp' = Outcome("search_contacts", req, auth)
           ELSE resp' = Outcome("search_contacts", req,
                    Return({c \in OwnedBy(auth.value) :
                                \/ ilike(c.first_name, q)
                                \/ ilike(c.last_name, q)
                                \/ ilike(c.email, q)
                                \/ ilike(c.phone, q)}))

_is_upcoming_Feb28(bday) ==
    LET next_week == AddDays(today, 7)
        normalized == IF ValidDate(today.y, bday.m, bday.d)
                      THEN Date(today.y, bday.m, bday.d)
                      ELSE Date(today.y, 2, 28)
    IN  DateLE(today, normalized) /\ DateLE(normalized, next_week)

\* _is_upcoming inside get_upcoming_birthdays
_is_upcoming(bday) ==
    LET next_week == AddDays(today, 7)
        normalized == IF ValidDate(today.y, bday.m, bday.d)
                      THEN Date(today.y, bday.m, bday.d)
                      ELSE Date(today.y, 3, 1)
    IN  DateLE(today, normalized) /\ DateLE(normalized, next_week)

get_upcoming_birthdays(token) ==
    LET auth == _get_user_id(token)
        req == [token |-> token]
    IN  /\ UNCHANGED <<contacts, contactSeq>>
        /\ IF auth.raised
           THEN resp' = Outcome("get_upcoming_birthdays", req, auth)
           ELSE resp' = Outcome("get_upcoming_birthdays", req,
                                Return({c \in OwnedBy(auth.value) : _is_upcoming(c.birthday)}))

(***************************************************************************)
(* app/utils/cache.py over a Redis store of [key, val, exp] entries         *)
(***************************************************************************)
\* Decimal digits of a natural number, most significant first.
RECURSIVE Digits(_)
Digits(n) == IF n < 10 THEN <<n>> ELSE Append(Digits(n \div 10), n % 10)

RECURSIVE FromDigits(_)
FromDigits(ds) ==
    IF Len(ds) = 1 THEN ds[1]
    ELSE 10 * FromDigits(SubSeq(ds, 1, Len(ds) - 1)) + ds[Len(ds)]

\* The members of the cached projections that hold numbers.
NumberKeys == {"id", "user_id"}

\* json.dumps of a flat dict: each member written as a number or a string.
json_dumps(data) ==
    [k \in DOMAIN data |->
        IF k \in NumberKeys THEN [number |-> Digits(data[k])] ELSE [string |-> data[k]]]

\* json.loads of such a document.
json_loads(val) ==
    [k \in DOMAIN val |->
        IF "number" \in DOMAIN val[k] THEN FromDigits(val[k].number) ELSE val[k].string]

UserKey_Shared(user_id) == "user:"

\* f"user:{user_id}"
UserKey(user_id) == "user:" \o ToString(user_id)

\* Entries a read can still see: Redis drops a key once its ttl has elapsed.
Live(store) == {e \in store : now < e.exp}

\* client.setex(key, ttl_seconds, value)
Setex(store, key, ttl_seconds, value) ==
    {e \in Live(store) : e.key # key}
        \cup {[key |-> key, val |-> value, exp |-> now + ttl_seconds]}

\* client.delete(key)
Delete(store, key) == {e \in Live(store) : e.key # key}

RedisError == Raise(HTTP_500_INTERNAL_SERVER_ERROR, "RedisError")

DEFAULT_TTL_SECONDS == 1800

\* cache_user: the store after the write; RedisError is not caught.
cache_user(store, user_id, data, ttl_seconds) ==
    IF ~redisUp \/ ttl_seconds <= 0 THEN RedisError
    ELSE Return(Setex(store, UserKey(user_id), ttl_seconds, json_dumps(data)))

\* get_cached_user: the cached dict or None (NoneVal); RedisError is not caught.
get_cached_user(store, user_id) ==
    IF ~redisUp THEN RedisError
    ELSE LET hit == {e \in Live(store) : e.key = UserKey(user_id)}
         IN  IF hit = {} THEN Return(NoneVal)
             ELSE Return(json_loads((CHOOSE e \in hit : TRUE).val))

\* delete_user_cache: the store afterwards; a RedisError is swallowed.
delete_user_cache(store, user_id) ==
    IF ~redisUp THEN store ELSE Delete(store, UserKey(user_id))

update_user_cache_DoubleTtl(store, user_id, data, ttl_seconds) ==
    cache_user(store, user_id, data, 2 * ttl_seconds)

\* update_user_cache
update_user_cache(store, user_id, data, ttl_seconds) ==
    cache_user(store, user_id, data, ttl_seconds)

(***************************************************************************)
(* Environments, registered users and the credentials clients hold.        *)
(***************************************************************************)
\* No variable set: the three signing keys coincide.
DefaultEnv ==
    [SECRET_KEY |-> Unset, REFRESH_SECRET_KEY |-> Unset, RESET_SECRET_KEY |-> Unset,
     TESTING |-> Unset, DATABASE_URL |-> "postgresql"]
\* A deployment that sets a key per token class.
SplitKeysEnv ==
    [DefaultEnv EXCEPT !.REFRESH_SECRET_KEY = "refreshkey", !.RESET_SECRET_KEY = "resetkey"]
\* The test configuration: TESTING=1 on SQLite.
TestEnv == [DefaultEnv EXCEPT !.TESTING = "1", !.DATABASE_URL = "sqlite"]

Null == "<null>"

\* A row of the users table (app/models/user.py).
UserRow(id, username, email, hashed_password, role) ==
    [id |-> id, username |-> username, email |-> email,
     hashed_password |-> hashed_password, is_active |-> TRUE,
     is_verified |-> FALSE, avatar_url |-> Null, role |-> role]

Alice == UserRow(1, "alice", "alice@x.com", get_password_hash("pw1", "s1"), "user")
Bob == UserRow(2, "bob", "bob@x.com", get_password_hash("pw2", "s2"), "user")

\* The claims login puts in the tokens of a user.
LoginClaims(user) == [user_id |-> user.id, email |-> user.email]

\* A bearer credential a client may present, with what it was issued for.
Held(what, token) == [purpose |-> what, tok |-> token]

AccessOf(user) == Held("access", create_access_token(LoginClaims(user), NoneVal))
RefreshOf(user) == Held("refresh", create_refresh_token(LoginClaims(user), NoneVal))
ResetOf(user) == Held("reset", create_reset_token(user.id, NoneVal))
\* An access token that outlived its 30 minutes by a second.
ExpiredAccessOf(user) ==
    Held("expired", IssuedEarlier(create_access_token(LoginClaims(user), NoneVal),
                                  60 * ACCESS_TOKEN_EXPIRE_MINUTES + 1))
\* Credentials no issuing call produced.
ForgedOf(user) ==
    Held("forged", Jwt(create_access_token(LoginClaims(user), NoneVal).payload, "attackerkey"))
NoUserIdToken == Held("nouid", create_access_token([email |-> "alice@x.com"], NoneVal))
Malformed == Held("malformed", MalformedToken)
Missing == Held("missing", EmptyToken)

BadTokens == {ExpiredAccessOf(Alice), ForgedOf(Alice), NoUserIdToken, Malformed, Missing}

(***************************************************************************)
(* app/crud/user.py: each function takes the users table `db` and returns  *)
(* the row it found or wrote, with the table after its commit.             *)
(***************************************************************************)
ByEmail(db, email) == {u \in db : u.email = email}
ByUsername(db, username) == {u \in db : u.username = username}
ById(db, id) == {u \in db : u.id = id}
First(rows) == CHOOSE u \in rows : TRUE

Written(db, obj) == Return([db |-> db, obj |-> obj])

create_user_EmailOnly(db, user, salt) ==
    IF ByEmail(db, user.email) # {}
    THEN Raise(HTTP_409_CONFLICT, "Email already registered")
    ELSE LET db_user == UserRow(Cardinality(db) + 1, user.username, user.email,
                                get_password_hash(user.password, salt), "user")
         IN  Written(db \cup {db_user}, db_user)

create_user_AsAdmin(db, user, salt) ==
    IF ByEmail(db, user.email) # {}
    THEN Raise(HTTP_409_CONFLICT, "Email already registered")
    ELSE IF ByUsername(db, user.username) # {}
    THEN Raise(HTTP_409_CONFLICT, "Username already taken")
    ELSE LET db_user == UserRow(Cardinality(db) + 1, user.username, user.email,
                                get_password_hash(user.password, salt), "admin")
         IN  Written(db \cup {db_user}, db_user)

create_user(db, user, salt) ==
    IF ByEmail(db, user.email) # {}
    THEN Raise(HTTP_409_CONFLICT, "Email already registered")
    ELSE IF ByUsername(db, user.username) # {}
    THEN Raise(HTTP_409_CONFLICT, "Username already taken")
    ELSE LET db_user == UserRow(Cardinality(db) + 1, user.username, user.email,
                                get_password_hash(user.password, salt), "user")
         IN  Written(db \cup {db_user}, db_user)

authenticate_user_AnyPassword(db, username, password) ==
    LET found == ByUsername(db, username)
    IN  IF found = {}
        THEN Raise(HTTP_401_UNAUTHORIZED, "Invalid credentials")
        ELSE Return(First(found))

authenticate_user(db, username, password) ==
    LET found == ByUsername(db, username)
    IN  IF found = {} \/ ~verify_password(password, First(found).hashed_password)
        THEN Raise(HTTP_401_UNAUTHORIZED, "Invalid credentials")
        ELSE Return(First(found))

verify_user_email_Toggle(db, user_id) ==
    LET found == ById(db, user_id)
    IN  IF found = {} THEN Raise(HTTP_404_NOT_FOUND, "User not found")
        ELSE LET user == [First(found) EXCEPT !.is_verified = ~@]
             IN  Written((db \ found) \cup {user}, user)

verify_user_email(db, user_id) ==
    LET found == ById(db, user_id)
    IN  IF found = {} THEN Raise(HTTP_404_NOT_FOUND, "User not found")
        ELSE LET user == [First(found) EXCEPT !.is_verified = TRUE]
             IN  Written((db \ found) \cup {user}, user)

update_avatar(db, user_id, avatar_url) ==
    LET found == ById(db, user_id)
    IN  IF found = {} THEN Raise(HTTP_404_NOT_FOUND, "User not found")
        ELSE LET user == [First(found) EXCEPT !.avatar_url = avatar_url]
             IN  Written((db \ found) \cup {user}, user)

(***************************************************************************)
(* app/routers/user.py                                                     *)
(***************************************************************************)
\* response_model=UserOut
UserOut(user) ==
    [id |-> user.id, username |-> user.username, email |-> user.email,
     is_active |-> user.is_active, is_verified |-> user.is_verified,
     avatar_url |-> user.avatar_url, role |-> user.role]

\* A handler's answer with a status other than 200.
WithStatus(result, status) == [result EXCEPT !.status = status]

\* The projection cached after verification, avatar and role changes and by /me.
Projection(user) == [user_id |-> user.id, email |-> user.email, role |-> user.role]

\* delete_user_cache then update_user_cache at the end of a mutating route:
\* the store afterwards, or the RedisError of the write.
RefreshCache(store, user) ==
    update_user_cache(delete_user_cache(store, user.id), user.id, Projection(user),
                      DEFAULT_TTL_SECONDS)

register(user, salt) ==
    LET created == create_user(users, user, salt)
    IN  /\ users' = IF created.raised THEN users ELSE created.value.db
        /\ resp' = Outcome("register", [user |-> user],
                           IF created.raised THEN created
                           ELSE WithStatus(Return(UserOut(created.value.obj)), 201))
        /\ UNCHANGED cache

login(username, password) ==
    LET auth == authenticate_user(users, username, password)
        req == [username |-> username, password |-> password]
    IN  /\ UNCHANGED users
        /\ IF auth.raised
           THEN resp' = Outcome("login", req, auth) /\ UNCHANGED cache
           ELSE LET user == auth.value
                    access == create_access_token(LoginClaims(user), NoneVal)
                    refresh_token == create_refresh_token(LoginClaims(user), NoneVal)
                    cached == cache_user(cache, user.id,
                                         [id |-> user.id, username |-> user.username,
                                          email |-> user.email, role |-> user.role],
                                         DEFAULT_TTL_SECONDS)
                IN  IF cached.raised
                    THEN resp' = Outcome("login", req, cached) /\ UNCHANGED cache
                    ELSE /\ cache' = cached.value
                         /\ resp' = Outcome("login", req,
                                Return([access_token |-> access, token_type |-> "bearer",
                                        refresh_token |-> refresh_token]))

refresh_NoUserIdCheck(token) ==
    LET payload == decode_refresh_token(token)
        req == [token |-> token]
    IN  /\ UNCHANGED <<users, cache>>
        /\ IF payload = NoneVal
           THEN resp' = Outcome("refresh", req,
                                Raise(HTTP_401_UNAUTHORIZED, "Invalid refresh token"))
           ELSE LET claims == [k \in {"user_id", "email"} |-> Get(payload, k)]
                IN  resp' = Outcome("refresh", req,
                        Return([access_token |-> create_access_token(claims, NoneVal),
                                token_type |-> "bearer", refresh_token |-> token]))

refresh(token) ==
    LET payload == decode_refresh_token(token)
        req == [token |-> token]
    IN  /\ UNCHANGED <<users, cache>>
        /\ IF payload = NoneVal \/ "user_id" \notin DOMAIN payload \/ payload.user_id = 0
           THEN resp' = Outcome("refresh", req,
                                Raise(HTTP_401_UNAUTHORIZED, "Invalid refresh token"))
           ELSE LET claims == [user_id |-> payload.user_id, email |-> Get(payload, "email")]
                IN  resp' = Outcome("refresh", req,
                        Return([access_token |-> create_access_token(claims, NoneVal),
                                token_type |-> "bearer", refresh_token |-> token]))

\* The tail shared by the routes that commit a user and then refresh its
\* cache entry: the commit stands even when the cache write raises.
CommitThenCache(op, req, written) ==
    LET user == written.value.obj
        cached == RefreshCache(cache, user)
    IN  /\ users' = written.value.db
        /\ IF cached.raised
           THEN /\ cache' = delete_user_cache(cache, user.id)
                /\ resp' = Outcome(op, req, cached)
           ELSE /\ cache' = cached.value
                /\ resp' = Outcome(op, req, Return(UserOut(user)))

verify_email(user_id) ==
    LET written == verify_user_email(users, user_id)
        req == [user_id |-> user_id]
    IN  IF written.raised
        THEN resp' = Outcome("verify_email", req, written) /\ UNCHANGED <<users, cache>>
        ELSE CommitThenCache("verify_email", req, written)

\* cloudinary.uploader.upload(file.file): the answer of the image host, which
\* has stored the file and serves it under secure_url.
upload(file) == [secure_url |-> "https://res.cloudinary.com/" \o file.filename]

update_user_avatar_UploadFirst(token, file) ==
    LET payload == decode_access_token(token)
        req == [token |-> token, file |-> file]
        result == upload(file)
        refuse(status, detail) ==
            /\ resp' = Outcome("update_user_avatar", req, Raise(status, detail))
            /\ UNCHANGED <<users, cache>>
    IN  IF file = NoneVal
        THEN refuse(422, "File required") /\ UNCHANGED uploads
        ELSE /\ uploads' = uploads \cup {file}
             /\ IF payload = NoneVal THEN refuse(HTTP_401_UNAUTHORIZED, "Invalid token")
                ELSE LET found == IF "user_id" \in DOMAIN payload
                                  THEN ById(users, payload.user_id) ELSE {}
                     IN  IF found = {} \/ First(found).role # "admin"
                         THEN refuse(403, "Only admin can change avatar")
                         ELSE CommitThenCache("update_user_avatar", req,
                                 update_avatar(users, payload.user_id, result.secure_url))

\* POST /users/avatar: the file is sent to the image host only after the
\* token and the role of its user were checked.
update_user_avatar(token, file) ==
    LET payload == decode_access_token(token)
        req == [token |-> token, file |-> file]
        refuse(result) ==
            /\ resp' = Outcome("update_user_avatar", req, result)
            /\ UNCHANGED <<users, cache, uploads>>
    IN  IF file = NoneVal THEN refuse(Raise(422, "File required"))
        ELSE IF payload = NoneVal THEN refuse(Raise(HTTP_401_UNAUTHORIZED, "Invalid token"))
        ELSE LET found == IF "user_id" \in DOMAIN payload THEN ById(users, payload.user_id) ELSE {}
             IN  IF found = {} \/ First(found).role # "admin"
                 THEN refuse(Raise(403, "Only admin can change avatar"))
                 ELSE LET result == upload(file)
                      IN  /\ uploads' = uploads \cup {file}
                          /\ CommitThenCache("update_user_avatar", req,
                                 update_avatar(users, payload.user_id, result.secure_url))

get_me_CachedRole(token) ==
    LET payload == decode_access_token(token)
        req == [token |-> token]
        none == "user_id" \notin DOMAIN payload
        \* get_cached_user(None) reads key user:None, which nothing writes
        cached == IF none THEN (IF redisUp THEN Return(NoneVal) ELSE RedisError)
                  ELSE get_cached_user(cache, payload.user_id)
    IN  /\ UNCHANGED users
        /\ IF payload = NoneVal
           THEN /\ resp' = Outcome("get_me", req, Raise(HTTP_401_UNAUTHORIZED, "Invalid token"))
                /\ UNCHANGED cache
           ELSE IF cached.raised
           THEN resp' = Outcome("get_me", req, cached) /\ UNCHANGED cache
           ELSE LET viaCache == IF cached.value # NoneVal /\ "user_id" \in DOMAIN cached.value
                                THEN ById(users, cached.value.user_id) ELSE {}
                    found == IF none THEN {} ELSE ById(users, payload.user_id)
                IN  IF viaCache # {}
                    THEN /\ resp' = Outcome("get_me", req, Return(UserOut([First(viaCache) EXCEPT !.role = cached.value.role])))
                         /\ UNCHANGED cache
                    ELSE IF found = {}
                    THEN /\ resp' = Outcome("get_me", req, Raise(HTTP_404_NOT_FOUND, "User not found"))
                         /\ UNCHANGED cache
                    ELSE LET user == First(found)
                             primed == update_user_cache(cache, user.id, Projection(user),
                                                         DEFAULT_TTL_SECONDS)
                         IN  IF primed.raised
                             THEN resp' = Outcome("get_me", req, primed) /\ UNCHANGED cache
                             ELSE /\ cache' = primed.value
                                  /\ resp' = Outcome("get_me", req, Return(UserOut(user)))

get_me(token) ==
    LET payload == decode_access_token(token)
        req == [token |-> token]
        none == "user_id" \notin DOMAIN payload
        \* get_cached_user(None) reads key user:None, which nothing writes
        cached == IF none THEN (IF redisUp THEN Return(NoneVal) ELSE RedisError)
                  ELSE get_cached_user(cache, payload.user_id)
    IN  /\ UNCHANGED users
        /\ IF payload = NoneVal
           THEN /\ resp' = Outcome("get_me", req, Raise(HTTP_401_UNAUTHORIZED, "Invalid token"))
                /\ UNCHANGED cache
           ELSE IF cached.raised
           THEN resp' = Outcome("get_me", req, cached) /\ UNCHANGED cache
           ELSE LET viaCache == IF cached.value # NoneVal /\ "user_id" \in DOMAIN cached.value
                                THEN ById(users, cached.value.user_id) ELSE {}
                    found == IF none THEN {} ELSE ById(users, payload.user_id)
                IN  IF viaCache # {}
                    THEN /\ resp' = Outcome("get_me", req, Return(UserOut(First(viaCache))))
                         /\ UNCHANGED cache
                    ELSE IF found = {}
                    THEN /\ resp' = Outcome("get_me", req, Raise(HTTP_404_NOT_FOUND, "User not found"))
                         /\ UNCHANGED cache
                    ELSE LET user == First(found)
                             primed == update_user_cache(cache, user.id, Projection(user),
                                                         DEFAULT_TTL_SECONDS)
                         IN  IF primed.raised
                             THEN resp' = Outcome("get_me", req, primed) /\ UNCHANGED cache
                             ELSE /\ cache' = primed.value
                                  /\ resp' = Outcome("get_me", req, Return(UserOut(user)))

\* What request_password_reset answers for `email` over the users table `db`.
reset_request_answer(db, email) ==
    LET found == ByEmail(db, email)
    IN  IF found = {}
        THEN Return([msg |-> "If the account exists, reset instructions have been sent."])
        ELSE LET token == create_reset_token(First(found).id, NoneVal)
             IN  IF env.TESTING = "1"
                 THEN Return([msg |-> "Reset token generated", reset_token |-> token])
                 ELSE Return([msg |-> "Reset instructions have been sent if the account exists."])

request_password_reset(email) ==
    /\ resp' = Outcome("request_password_reset", [email |-> email],
                       reset_request_answer(users, email))
    /\ UNCHANGED <<users, cache>>

reset_password_EveryUser(reset_token, new_password, salt) ==
    LET user_id == verify_reset_token(reset_token)
        req == [reset_token |-> reset_token, new_password |-> new_password]
    IN  /\ UNCHANGED cache
        /\ IF user_id = NoneVal \/ user_id.some = 0
           THEN /\ resp' = Outcome("reset_password", req, Raise(400, "Invalid or expired token"))
                /\ UNCHANGED users
           ELSE IF ById(users, user_id.some) = {}
           THEN /\ resp' = Outcome("reset_password", req, Raise(HTTP_404_NOT_FOUND, "User not found"))
                /\ UNCHANGED users
           ELSE /\ users' = {[user EXCEPT !.hashed_password = get_password_hash(new_password, salt)] :
                                user \in users}
                /\ resp' = Outcome("reset_password", req, Return([msg |-> "Password updated"]))

reset_password(reset_token, new_password, salt) ==
    LET user_id == verify_reset_token(reset_token)
        req == [reset_token |-> reset_token, new_password |-> new_password]
    IN  /\ UNCHANGED cache
        /\ IF user_id = NoneVal \/ user_id.some = 0
           THEN /\ resp' = Outcome("reset_password", req, Raise(400, "Invalid or expired token"))
                /\ UNCHANGED users
           ELSE IF ById(users, user_id.some) = {}
           THEN /\ resp' = Outcome("reset_password", req, Raise(HTTP_404_NOT_FOUND, "User not found"))
                /\ UNCHANGED users
           ELSE LET user == First(ById(users, user_id.some))
                IN  /\ users' = (users \ {user}) \cup
                            {[user EXCEPT !.hashed_password = get_password_hash(new_password, salt)]}
                    /\ resp' = Outcome("reset_password", req, Return([msg |-> "Password updated"]))

set_role_AnyRequester(user_id, role, token) ==
    LET payload == decode_access_token(token)
        req == [user_id |-> user_id, role |-> role, token |-> token]
        requester == IF payload # NoneVal /\ "user_id" \in DOMAIN payload
                     THEN ById(users, payload.user_id) ELSE {}
        target == ById(users, user_id)
        refuse(result) == resp' = Outcome("set_role", req, result) /\ UNCHANGED <<users, cache>>
    IN  IF payload = NoneVal THEN refuse(Raise(HTTP_401_UNAUTHORIZED, "Invalid token"))
        ELSE IF requester = {} THEN refuse(Raise(HTTP_404_NOT_FOUND, "Requester not found"))
        ELSE IF target = {} THEN refuse(Raise(HTTP_404_NOT_FOUND, "User not found"))
        ELSE IF role \notin {"user", "admin"} THEN refuse(Raise(400, "Invalid role"))
        ELSE LET changed == [First(target) EXCEPT !.role = role]
             IN  CommitThenCache("set_role", req,
                                 Written((users \ target) \cup {changed}, changed))

set_role(user_id, role, token) ==
    LET payload == decode_access_token(token)
        req == [user_id |-> user_id, role |-> role, token |-> token]
        requester == IF payload # NoneVal /\ "user_id" \in DOMAIN payload
                     THEN ById(users, payload.user_id) ELSE {}
        target == ById(users, user_id)
        refuse(result) == resp' = Outcome("set_role", req, result) /\ UNCHANGED <<users, cache>>
    IN  IF payload = NoneVal THEN refuse(Raise(HTTP_401_UNAUTHORIZED, "Invalid token"))
        ELSE IF requester = {} THEN refuse(Raise(HTTP_404_NOT_FOUND, "Requester not found"))
        ELSE IF First(requester).role # "admin"
        THEN refuse(Raise(403, "Only admin can change user roles"))
        ELSE IF target = {} THEN refuse(Raise(HTTP_404_NOT_FOUND, "User not found"))
        ELSE IF role \notin {"user", "admin"} THEN refuse(Raise(400, "Invalid role"))
        ELSE LET changed == [First(target) EXCEPT !.role = role]
             IN  CommitThenCache("set_role", req,
                                 Written((users \ target) \cup {changed}, changed))

(***************************************************************************)
(* SpecContacts: the contact repository called by two registered users.    *)
(***************************************************************************)
ContactPayload(first, last, email, phone, birthday, extra) ==
    [first_name |-> first, last_name |-> last, email |-> email, phone |-> phone,
     birthday |-> birthday, extra |-> extra]

ContactPayloads ==
    { ContactPayload("Ann", "Lee", "ann@c.com", "111", Date(1990, 6, 12), "friend"),
      ContactPayload("Ben", "Ray", "ben@c.com", "222", Date(2000, 2, 29), ""),
      \* the first contact's email under other values, and with a user_id
      ContactPayload("Cy", "Orr", "ann@c.com", "333", Date(1985, 12, 31), "")
          @@ [user_id |-> 2] }

ContactTokens == {AccessOf(Alice), AccessOf(Bob), RefreshOf(Alice), ResetOf(Bob), Malformed}

ContactIds == 1..(MaxContactId + 1)

ContactsFrame == UNCHANGED <<users, cache, redisUp, now, today, env, inflight, uploads>>

InitContacts ==
    /\ users = {Alice, Bob}
    /\ contacts = {}
    /\ contactSeq = 0
    /\ cache = {}
    /\ redisUp = TRUE
    /\ now = 0
    /\ today = Date(2024, 6, 10)
    /\ env \in {DefaultEnv, TestEnv}
    /\ resp = NoResp
    /\ purpose = "none"
    /\ inflight = NoRequests
    /\ uploads = {}

CreateContact ==
    \E t \in ContactTokens, p \in ContactPayloads :
        create_contact(p, t.tok) /\ purpose' = t.purpose /\ ContactsFrame

ListContacts ==
    \E t \in ContactTokens, skip \in 0..MaxSkip, limit \in {1, 100} :
        get_contacts(skip, limit, t.tok) /\ purpose' = t.purpose /\ ContactsFrame

GetContact ==
    \E t \in ContactTokens, id \in ContactIds :
        get_contact(id, t.tok) /\ purpose' = t.purpose /\ ContactsFrame

UpdateContact ==
    \E t \in ContactTokens, id \in ContactIds, p \in ContactPayloads :
        update_contact(id, p, t.tok) /\ purpose' = t.purpose /\ ContactsFrame

DeleteContact ==
    \E t \in ContactTokens, id \in ContactIds :
        delete_contact(id, t.tok) /\ purpose' = t.purpose /\ ContactsFrame

UpcomingBirthdays ==
    \E t \in ContactTokens :
        get_upcoming_birthdays(t.tok) /\ purpose' = t.purpose /\ ContactsFrame

NextContacts ==
    \/ CreateContact
    \/ ListContacts
    \/ GetContact
    \/ UpdateContact
    \/ DeleteContact
    \/ UpcomingBirthdays

SpecContacts == InitContacts /\ [][NextContacts]_vars

(***************************************************************************)
(* SpecOwnership: the seven contact operations, search among them, called  *)
(* by two registered users from an empty table, with the text fields       *)
(* written out character by character.                                     *)
(***************************************************************************)
\* Two contacts with birthdays in the coming week; the letter o occurs in
\* both, the letter c in the first only.
OwnPayloads ==
    {ContactPayload(<<"C", "y">>, <<"O", "r", "r">>, <<"c", "y", "@", "x">>, <<"3", "3">>,
                    Date(1990, 6, 12), ""),
     ContactPayload(<<"D", "i">>, <<"P", "o">>, <<"d", "i", "@", "x">>, <<"4", "4">>,
                    Date(1990, 6, 14), "")}

OwnTokens == {AccessOf(Alice), AccessOf(Bob)}

\* Search texts: in one contact, in both, in none, and the LIKE wildcard.
OwnQueries == {<<"c">>, <<"o">>, <<"z">>, <<"%">>}

InitOwnership ==
    /\ users = {Alice, Bob}
    /\ contacts = {}
    /\ contactSeq = 0
    /\ cache = {}
    /\ redisUp = TRUE
    /\ now = 0
    /\ today = Date(2024, 6, 10)
    /\ env \in {DefaultEnv, TestEnv}
    /\ resp = NoResp
    /\ purpose = "none"
    /\ inflight = NoRequests
    /\ uploads = {}

OwnCreate ==
    \E t \in OwnTokens, p \in OwnPayloads :
        create_contact(p, t.tok) /\ purpose' = t.purpose /\ ContactsFrame

OwnList ==
    \E t \in OwnTokens, skip \in 0..MaxSkip :
        get_contacts(skip, 100, t.tok) /\ purpose' = t.purpose /\ ContactsFrame

OwnGet ==
    \E t \in OwnTokens, id \in ContactIds :
        get_contact(id, t.tok) /\ purpose' = t.purpose /\ ContactsFrame

OwnUpdate ==
    \E t \in OwnTokens, id \in ContactIds, p \in OwnPayloads :
        update_contact(id, p, t.tok) /\ purpose' = t.purpose /\ ContactsFrame

OwnDelete ==
    \E t \in OwnTokens, id \in ContactIds :
        delete_contact(id, t.tok) /\ purpose' = t.purpose /\ ContactsFrame

OwnSearch ==
    \E t \in OwnTokens, query \in OwnQueries :
        search_contacts(query, t.tok) /\ purpose' = t.purpose /\ ContactsFrame

OwnBirthdays ==
    \E t \in OwnTokens :
        get_upcoming_birthdays(t.tok) /\ purpose' = t.purpose /\ ContactsFrame

NextOwnership ==
    \/ OwnCreate
    \/ OwnList
    \/ OwnGet
    \/ OwnUpdate
    \/ OwnDelete
    \/ OwnSearch
    \/ OwnBirthdays

SpecOwnership == InitOwnership /\ [][NextOwnership]_vars

(***************************************************************************)
(* Properties of the contact repository                                    *)
(***************************************************************************)
ContactOps ==
    {"create_contact", "get_contacts", "get_contact", "update_contact",
     "delete_contact", "get_upcoming_birthdays"}
ByIdOps == {"get_contact", "update_contact", "delete_contact"}

\* The user a call that passed _get_user_id acted as.
Caller(r) == r.req.token.payload.user_id

\* A by-id call that passed authentication and named a row of another user.
OnForeignContact(r, rows) ==
    /\ r.op \in ByIdOps
    /\ r.status # HTTP_401_UNAUTHORIZED
    /\ \E c \in rows : c.id = r.req.contact_id /\ c.user_id # Caller(r)

\* A by-id call that passed authentication and named no row at all.
OnAbsentContact(r, rows) ==
    /\ r.op \in ByIdOps
    /\ r.status # HTTP_401_UNAUTHORIZED
    /\ \A c \in rows : c.id # r.req.contact_id

NotFoundOutcome(r) == r.status = HTTP_404_NOT_FOUND /\ r.detail = "Contact not found"

IsolationStep ==
    LET r == resp' IN
    /\ (r.op \in {"get_contacts", "search_contacts", "get_upcoming_birthdays"}
            /\ r.status = 200)
          => \A c \in r.body : c \in contacts /\ c.user_id = Caller(r)
    /\ (r.op \in {"get_contact", "update_contact", "create_contact"} /\ r.status = 200)
          => r.body.user_id = Caller(r)
    /\ OnForeignContact(r, contacts)
          => /\ NotFoundOutcome(r)
             /\ contacts' = contacts
             /\ \A c \in contacts : OwnedById(c.id, c.user_id)' = {c}
    /\ OnAbsentContact(r, contacts) => NotFoundOutcome(r) /\ contacts' = contacts
    /\ r.op = "delete_contact" /\ r.status = 200
          => \E c \in contacts : c.user_id = Caller(r) /\ contacts' = contacts \ {c}
    /\ r.op = "update_contact"
          => \A c \in contacts : \E d \in contacts' : d.id = c.id /\ d.user_id = c.user_id

\* C1: a contact is returned by get, list, search and upcoming-birthdays
\* only to the user whose token created it; get, update and delete by
\* another user on its id answer 404 "Contact not found" exactly as for an id
\* that does not exist and leave every contact as it was, still retrievable
\* by its owner.
C1_OwnershipIsolation == [][IsolationStep]_vars

\* Whether the search text occurs in one of the four fields searched.
Found(c, query) ==
    LET q == <<"%">> \o query \o <<"%">>
    IN  \/ ilike(c.first_name, q) \/ ilike(c.last_name, q)
        \/ ilike(c.email, q) \/ ilike(c.phone, q)

\* C1 witness: a search returned the caller's contact and left out a contact
\* of the other user in which the search text occurs as well.
C1_Witness ==
    /\ resp.op = "search_contacts"
    /\ resp.status = 200
    /\ resp.body # {}
    /\ \E c \in contacts :
            c.user_id # Caller(resp) /\ Found(c, resp.req.query) /\ c \notin resp.body

\* A user asked for a contact that exists and belongs to the other user, and
\* got 404.
ForeignByIdRefused ==
    /\ resp.op \in ByIdOps
    /\ resp.status = HTTP_404_NOT_FOUND
    /\ \E c \in contacts : c.id = resp.req.contact_id /\ c.user_id # Caller(resp)

(***************************************************************************)
(* SpecBirthday: the birthday window on chosen days of a leap and a        *)
(* non-leap year, with birthdays around each of them.                      *)
(***************************************************************************)
Todays ==
    { Date(2024, 6, 10),
      Date(2023, 2, 21), Date(2023, 2, 22), Date(2023, 2, 28), Date(2023, 3, 1),
      Date(2023, 3, 2), Date(2024, 2, 22), Date(2024, 2, 29),
      Date(2023, 12, 24), Date(2023, 12, 28), Date(2024, 12, 31), Date(2024, 1, 1) }

\* Birth dates with a fixed month and day, Feb 29 among them.
FixedBirthdays == {Date(1990, 6, 12), Date(1990, 6, 20), Date(1990, 6, 9), Date(2000, 2, 29)}

\* The calendar dates around today, and the same month and day in 2000.
BirthdaysNear ==
    LET near == {AddDays(today, k) : k \in (0 - 1)..MaxAhead}
    IN  near \cup {Date(2000, dt.m, dt.d) : dt \in near}

InitBirthday ==
    /\ users = {Alice, Bob}
    /\ contacts = {}
    /\ contactSeq = 0
    /\ cache = {}
    /\ redisUp = TRUE
    /\ now = 0
    /\ today \in Todays
    /\ env = DefaultEnv
    /\ resp = NoResp
    /\ purpose = "none"
    /\ inflight = NoRequests
    /\ uploads = {}

\* Each user files one contact; its birthday is the input under study.
CreateWithBirthday ==
    \/ \E bday \in BirthdaysNear \cup FixedBirthdays :
           /\ OwnedBy(Alice.id) = {}
           /\ create_contact(ContactPayload("Jane", "Smith", "jane@c.com", "555", bday, ""),
                             AccessOf(Alice).tok)
           /\ purpose' = "access" /\ ContactsFrame
    \/ \E bday \in FixedBirthdays :
           /\ OwnedBy(Bob.id) = {}
           /\ create_contact(ContactPayload("Ben", "Ray", "ben@c.com", "222", bday, ""),
                             AccessOf(Bob).tok)
           /\ purpose' = "access" /\ ContactsFrame

AskUpcoming ==
    \E t \in {AccessOf(Alice), AccessOf(Bob)} :
        get_upcoming_birthdays(t.tok) /\ purpose' = t.purpose /\ ContactsFrame

NextBirthday == CreateWithBirthday \/ AskUpcoming

SpecBirthday == InitBirthday /\ [][NextBirthday]_vars

\* date.toordinal up to a constant: days from 1 January 2000.
RECURSIVE DaysBeforeYear(_)
DaysBeforeYear(y) ==
    IF y <= 2000 THEN 0
    ELSE DaysBeforeYear(y - 1) + (IF IsLeap(y - 1) THEN 366 ELSE 365)

RECURSIVE DaysBeforeMonth(_, _)
DaysBeforeMonth(y, m) ==
    IF m <= 1 THEN 0 ELSE DaysBeforeMonth(y, m - 1) + DaysInMonth(y, m - 1)

Ordinal(dt) == DaysBeforeYear(dt.y) + DaysBeforeMonth(dt.y, dt.m) + dt.d

\* The birthday's month and day placed in the current year, Feb 29 moved to
\* March 1 when the current year has no Feb 29.
NormalizedBirthday(bday) ==
    IF bday.m = 2 /\ bday.d = 29 /\ ~IsLeap(today.y)
    THEN Date(today.y, 3, 1)
    ELSE Date(today.y, bday.m, bday.d)

\* How many days after today the normalized birthday lies.
DaysUntil(bday) == Ordinal(NormalizedBirthday(bday)) - Ordinal(today)

UpcomingAnswered == resp.op = "get_upcoming_birthdays" /\ resp.status = 200

\* C2: get_upcoming_birthdays returns exactly the requester's contacts whose
\* normalized birthday lies 0 to 7 days after today, both ends included, with
\* Feb 29 normalized to March 1 in a non-leap current year.
C2_BirthdayWindow ==
    UpcomingAnswered =>
        resp.body = {c \in contacts : /\ c.user_id = Caller(resp)
                                      /\ DaysUntil(c.birthday) \in 0..7}

\* C2 witness: in a non-leap year a Feb 29 birthday was returned, standing
\* for March 1, while a contact of another user was not.
C2_Witness ==
    /\ UpcomingAnswered
    /\ ~IsLeap(today.y)
    /\ \E c \in resp.body : c.birthday.m = 2 /\ c.birthday.d = 29
    /\ \E c \in contacts : c.user_id # Caller(resp)

\* C3: every owned contact whose birthday is the calendar date today + k
\* days, k in 0..7, is returned, whatever today is.
C3_NextSevenDays ==
    UpcomingAnswered =>
        \A c \in contacts :
            (c.user_id = Caller(resp) /\ \E k \in 0..7 : c.birthday = AddDays(today, k))
                => c \in resp.body

(***************************************************************************)
(* SpecCache: the cache utilities called directly while the clock runs and  *)
(* Redis stops and resumes answering.                                      *)
(***************************************************************************)
CacheIds == {1, 12}
CacheData ==
    { [id |-> 1, username |-> "test", email |-> "t@example.com", role |-> "user"],
      [user_id |-> 12, email |-> "d@example.com", role |-> "admin"] }
CacheTtls == {1, 2, DEFAULT_TTL_SECONDS}

CacheFrame ==
    UNCHANGED <<users, contacts, contactSeq, redisUp, today, env, inflight, uploads, purpose>>

InitCache ==
    /\ users = {}
    /\ contacts = {}
    /\ contactSeq = 0
    /\ cache = {}
    /\ redisUp = TRUE
    /\ now = 0
    /\ today = Date(2024, 6, 10)
    /\ env = DefaultEnv
    /\ resp = NoResp
    /\ purpose = "none"
    /\ inflight = NoRequests
    /\ uploads = {}

\* A call of cache_user or update_user_cache: returns None or raises.
CacheWrite(op, user_id, data, ttl_seconds) ==
    LET r == IF op = "cache_user"
             THEN cache_user(cache, user_id, data, ttl_seconds)
             ELSE update_user_cache(cache, user_id, data, ttl_seconds)
        req == [user_id |-> user_id, data |-> data, ttl_seconds |-> ttl_seconds]
    IN  /\ cache' = IF r.raised THEN cache ELSE r.value
        /\ resp' = Outcome(op, req, IF r.raised THEN r ELSE Return(NoneVal))
        /\ UNCHANGED now

CallCacheUser ==
    \E id \in CacheIds, data \in CacheData, ttl \in CacheTtls :
        CacheWrite("cache_user", id, data, ttl) /\ CacheFrame

CallUpdateUserCache ==
    \E id \in CacheIds, data \in CacheData, ttl \in CacheTtls :
        CacheWrite("update_user_cache", id, data, ttl) /\ CacheFrame

CallGetCachedUser ==
    \E id \in CacheIds :
        /\ resp' = Outcome("get_cached_user", [user_id |-> id], get_cached_user(cache, id))
        /\ UNCHANGED <<cache, now>> /\ CacheFrame

CallDeleteUserCache ==
    \E id \in CacheIds :
        /\ cache' = delete_user_cache(cache, id)
        /\ resp' = Outcome("delete_user_cache", [user_id |-> id], Return(NoneVal))
        /\ UNCHANGED now /\ CacheFrame

\* The Redis server stops answering: every client call raises RedisError.
RedisFails ==
    /\ redisUp
    /\ redisUp' = FALSE
    /\ UNCHANGED <<users, contacts, contactSeq, cache, now, today, env, inflight, uploads,
                   resp, purpose>>

RedisRecovers ==
    /\ ~redisUp
    /\ redisUp' = TRUE
    /\ UNCHANGED <<users, contacts, contactSeq, cache, now, today, env, inflight, uploads,
                   resp, purpose>>

\* A second passes.
Tick ==
    /\ now < MaxClock
    /\ now' = now + 1
    /\ resp' = [op |-> "tick"]
    /\ UNCHANGED cache /\ CacheFrame

NextCache ==
    \/ CallCacheUser
    \/ CallUpdateUserCache
    \/ CallGetCachedUser
    \/ CallDeleteUserCache
    \/ RedisFails
    \/ RedisRecovers
    \/ Tick

SpecCache == InitCache /\ [][NextCache]_vars

\* What Redis holds for user_id: the document a read that Redis answers
\* returns, None when there is no entry or its ttl has elapsed.
Stored(user_id) ==
    LET hit == {e \in Live(cache) : e.key = "user:" \o ToString(user_id)}
    IN  IF hit = {} THEN NoneVal ELSE json_loads((CHOOSE e \in hit : TRUE).val)

\* Whether the last write for user_id is still within its ttl.
Fresh(user_id) == \E e \in cache : e.key = "user:" \o ToString(user_id) /\ now < e.exp

CacheWriteOps == {"cache_user", "update_user_cache"}

\* A step in which Redis neither stops nor resumes: a call and its outcome,
\* or a second passing.
Request == redisUp' = redisUp

CacheAsideStep ==
    LET r == resp' IN
    Request => \A id \in CacheIds :
        LET mine == r.req.user_id = id IN
        \* a write that returns makes a read return exactly the data written,
        \* and the entry lasts ttl seconds from now; one that raises writes nothing
        /\ (r.op \in CacheWriteOps /\ mine /\ r.status = 200)
              => /\ redisUp
                 /\ Stored(id)' = r.req.data
                 /\ \E e \in cache' : /\ e.key = "user:" \o ToString(id)
                                      /\ e.exp = now + r.req.ttl_seconds
        /\ (r.op \in CacheWriteOps /\ r.status # 200) => ~redisUp /\ cache' = cache
        \* an invalidation always returns; one that Redis answered leaves no
        \* entry, one that Redis failed leaves the entry as it was
        /\ r.op = "delete_user_cache" => r.status = 200 /\ r.body = NoneVal
        /\ (r.op = "delete_user_cache" /\ mine /\ redisUp) => Stored(id)' = NoneVal
        /\ (r.op = "delete_user_cache" /\ ~redisUp) => cache' = cache
        \* a read that Redis answers returns what is stored; no read changes it
        /\ (r.op = "get_cached_user" /\ mine /\ redisUp)
              => r.status = 200 /\ r.body = Stored(id)
        /\ r.op = "get_cached_user" => cache' = cache
        \* a call about one id leaves what is stored for the other ids
        /\ (r.op \in CacheWriteOps \cup {"delete_user_cache"} /\ ~mine)
              => Stored(id)' = Stored(id)
        \* no entry outlives the ttl of its write: only a write sets an expiry,
        \* and time passing changes a read only by expiry
        /\ r.op \notin CacheWriteOps => cache' \subseteq cache
        /\ r.op = "tick" => Stored(id)' = IF Fresh(id)' THEN Stored(id) ELSE NoneVal

\* C6: while Redis answers, a read after cache_user(id, data, ttl) returns
\* exactly data until delete_user_cache(id) or until ttl seconds have passed,
\* and after a delete it returns None until the next write for that id; a
\* delete_user_cache that Redis fails returns all the same and leaves the
\* entry, which is read again until the ttl of its write has passed; calls
\* about one id never change what is read for another.
C6_CacheAside == [][CacheAsideStep]_vars

\* The statement as claimed: after every delete_user_cache(id) that returned
\* there is nothing to read for id.
InvalidatedStep ==
    LET r == resp' IN
    Request => \A id \in CacheIds :
        (r.op = "delete_user_cache" /\ r.req.user_id = id) => Stored(id)' = NoneVal

C6_DeleteAlwaysInvalidates == [][CacheAsideStep /\ InvalidatedStep]_vars

\* C6 witness: delete_user_cache returned while Redis was not answering, and
\* the data written for that id is still stored and within its ttl.
C6_Witness ==
    /\ resp.op = "delete_user_cache"
    /\ resp.status = 200
    /\ ~redisUp
    /\ Stored(resp.req.user_id) \in CacheData

(***************************************************************************)
(* SpecUsers: registration, authentication and password reset from an      *)
(* empty users table.                                                      *)
(***************************************************************************)
Usernames == {"alice", "bob"}
Emails == {"alice@x.com", "bob@x.com"}
Passwords == {"pw1", "pw2"}
Salts == {"s1", "s2"}

\* UserCreate payloads
UserCreates == [username : Usernames, email : Emails, password : Passwords]

UsersFrame == UNCHANGED <<contacts, contactSeq, redisUp, now, today, env, inflight, uploads>>

InitUsers ==
    /\ users = {}
    /\ contacts = {}
    /\ contactSeq = 0
    /\ cache = {}
    /\ redisUp = TRUE
    /\ now = 0
    /\ today = Date(2024, 6, 10)
    /\ env \in {DefaultEnv, TestEnv}
    /\ resp = NoResp
    /\ purpose = "none"
    /\ inflight = NoRequests
    /\ uploads = {}

Register ==
    \E user \in UserCreates, salt \in Salts :
        register(user, salt) /\ purpose' = "none" /\ UsersFrame

\* authenticate_user called on the repository, as the login route calls it.
CallAuthenticateUser ==
    \E username \in Usernames, password \in Passwords :
        /\ resp' = Outcome("authenticate_user", [username |-> username, password |-> password],
                           authenticate_user(users, username, password))
        /\ purpose' = "none"
        /\ UNCHANGED <<users, cache>> /\ UsersFrame

Login ==
    \E username \in Usernames, password \in Passwords :
        login(username, password) /\ purpose' = "none" /\ UsersFrame

\* An email no user registers with.
StrangerEmail == "nobody@x.com"

RequestReset ==
    \E email \in Emails \cup {StrangerEmail} :
        request_password_reset(email) /\ purpose' = "none" /\ UsersFrame

\* The reset tokens in circulation: one per user id, and a string that is none.
ResetTokens == {Held("reset", create_reset_token(id, NoneVal)) : id \in 1..2} \cup {Malformed}

ResetPassword ==
    \E t \in ResetTokens, new_password \in Passwords, salt \in Salts :
        reset_password(t.tok, new_password, salt) /\ purpose' = t.purpose /\ UsersFrame

NextUsers ==
    \/ Register
    \/ CallAuthenticateUser
    \/ Login
    \/ RequestReset
    \/ ResetPassword

SpecUsers == InitUsers /\ [][NextUsers]_vars

(***************************************************************************)
(* SpecProfile: the /users routes and a contacts listing over two seeded   *)
(* users, one of them an admin, with bearer tokens of every class and a    *)
(* Redis that may stop and resume answering.                               *)
(***************************************************************************)
\* alice after her role was set to admin in the database.
Admin == [Alice EXCEPT !.role = "admin"]

\* The bearer tokens clients present: what login and request-reset hand out
\* for the seeded users, and a string that is no token.
ProfileTokens ==
    {AccessOf(Admin), AccessOf(Bob), RefreshOf(Admin), ResetOf(Admin), Malformed}

Credentials == {<<"alice", "pw1">>, <<"bob", "pw2">>, <<"bob", "pw1">>}
ProfileIds == 2..3
Roles == {"user", "admin", "owner"}
\* The image a client attaches to POST /users/avatar.
AvatarFiles == {[filename |-> "avatar.png"]}

ProfileFrame == UNCHANGED <<contacts, contactSeq, redisUp, now, today, env, inflight, uploads>>

InitProfile ==
    /\ users = {Admin, Bob}
    /\ contacts = {ContactRow(1, ContactPayload("Ann", "Lee", "ann@c.com", "111",
                                                Date(1990, 6, 12), "friend"), Admin.id)}
    /\ contactSeq = 1
    /\ cache = {}
    /\ redisUp = TRUE
    /\ now = 0
    /\ today = Date(2024, 6, 10)
    /\ env \in {DefaultEnv, SplitKeysEnv}
    /\ resp = NoResp
    /\ purpose = "none"
    /\ inflight = NoRequests
    /\ uploads = {}

ProfileLogin ==
    \E c \in Credentials :
        login(c[1], c[2]) /\ purpose' = "none" /\ ProfileFrame

Refresh ==
    \E t \in ProfileTokens :
        refresh(t.tok) /\ purpose' = t.purpose /\ ProfileFrame

VerifyEmail ==
    \E user_id \in ProfileIds :
        verify_email(user_id) /\ purpose' = "none" /\ ProfileFrame

\* What the avatar route leaves alone.
AvatarFrame == UNCHANGED <<contacts, contactSeq, redisUp, now, today, env, inflight>>

UpdateAvatar ==
    \E t \in ProfileTokens, file \in AvatarFiles \cup {NoneVal} :
        update_user_avatar(t.tok, file) /\ purpose' = t.purpose /\ AvatarFrame

Me ==
    \E t \in ProfileTokens :
        get_me(t.tok) /\ purpose' = t.purpose /\ ProfileFrame

\* The access token of a user id that has no row.
Stranger == UserRow(3, "carol", "carol@x.com", get_password_hash("pw3", "s3"), "user")

SetRole ==
    \E user_id \in ProfileIds, role \in Roles, t \in ProfileTokens \cup {AccessOf(Stranger)} :
        set_role(user_id, role, t.tok) /\ purpose' = t.purpose /\ ProfileFrame

\* GET /contacts/, the first page
ProfileContacts ==
    \E t \in ProfileTokens :
        /\ get_contacts(0, 1, t.tok)
        /\ purpose' = t.purpose
        /\ UNCHANGED <<users, cache, redisUp, now, today, env, inflight, uploads>>

NextProfile ==
    \/ ProfileLogin
    \/ Refresh
    \/ VerifyEmail
    \/ UpdateAvatar
    \/ Me
    \/ SetRole
    \/ ProfileContacts
    \/ RedisFails
    \/ RedisRecovers

SpecProfile == InitProfile /\ [][NextProfile]_vars

(***************************************************************************)
(* C4: a refresh or reset token is refused with 401 by every operation     *)
(* that requires an access token (_get_user_id, get_me, set_role, avatar)  *)
(* and an access or reset token is refused with 401 by /users/refresh,     *)
(* whatever the signing keys are.                                          *)
(***************************************************************************)
AccessOps == {"get_contacts", "get_me", "set_role", "update_user_avatar"}

C4_TokensScopedToPurpose ==
    /\ (resp.op \in AccessOps /\ purpose \in {"refresh", "reset"}) => resp.status = 401
    /\ (resp.op = "refresh" /\ purpose \in {"access", "reset"}) => resp.status = 401

(***************************************************************************)
(* C5: login, GET /users/me, verify_email, the avatar update and set_role  *)
(* never answer with the cache layer's error: a RedisError raised by get,  *)
(* setex or delete does not become the request's failure.                  *)
(***************************************************************************)
CachedOps == {"login", "get_me", "verify_email", "update_user_avatar", "set_role"}

C5_CacheFailureNeverFailsRequest ==
    resp.op \in CachedOps =>
        ~(resp.status = HTTP_500_INTERNAL_SERVER_ERROR /\ resp.detail = RedisError.detail)

(***************************************************************************)
(* C12: set_role changes a role only when the token's user has stored role *)
(* admin and the requested role is "user" or "admin", and then only the    *)
(* target's role; a token that does not decode gets 401, a requester       *)
(* without a row 404, a requester who is not admin 403, a missing target   *)
(* 404 and another role 400, all without any change to the users table;    *)
(* every stored role is "user" or "admin".                                 *)
(***************************************************************************)
\* The rows of the user a bearer token names.
Named(token) ==
    IF token.payload = NoneVal THEN {}
    ELSE {u \in users : u.id = token.payload.user_id}

RolesValid == \A u \in users : u.role \in {"user", "admin"}

SetRoleStep ==
    LET r == resp'
    IN  (Request /\ r.op = "set_role") =>
            /\ users' # users =>
                    /\ \E q \in Named(r.req.token) : q.role = "admin"
                    /\ r.req.role \in {"user", "admin"}
                    /\ \E target \in users :
                            /\ target.id = r.req.user_id
                            /\ users' = (users \ {target}) \cup
                                        {[target EXCEPT !.role = r.req.role]}
            /\ r.status \in {400, 401, 403, 404} => users' = users
            /\ purpose' = "malformed" => r.status = 401 /\ r.detail = "Invalid token"
            /\ (r.status # 401 /\ Named(r.req.token) = {}) =>
                    r.status = 404 /\ r.detail = "Requester not found"
            /\ (r.status # 401 /\ \E q \in Named(r.req.token) : q.role # "admin") =>
                    r.status = 403 /\ r.detail = "Only admin can change user roles"
            /\ (r.status \notin {401, 403} /\ Named(r.req.token) # {}
                    /\ \A u \in users : u.id # r.req.user_id) =>
                    r.status = 404 /\ r.detail = "User not found"
            /\ (r.status \notin {401, 403, 404} /\ r.req.role \notin {"user", "admin"}) =>
                    r.status = 400 /\ r.detail = "Invalid role"

C12_SetRoleAdminOnly == [][SetRoleStep /\ RolesValid']_vars

\* bob, made admin earlier and since set back to user, was refused with 403.
C12_Witness ==
    /\ resp.op = "set_role"
    /\ resp.status = 403
    /\ resp.req.token.payload.user_id = Bob.id
    /\ \E u \in users : u.id = Bob.id /\ u.role = "user" /\ u.is_verified

(***************************************************************************)
(* C13: POST /users/avatar with a file changes an avatar_url only when the  *)
(* token decodes and the user it names has stored role admin at that       *)
(* moment; it then uploads the file and changes only that user's           *)
(* avatar_url, to the URL the upload answered.  A token that does not      *)
(* decode gets 401 and a caller who is not admin 403; in both cases, as    *)
(* for a request without a file (422), nothing is uploaded and no user     *)
(* record changes.                                                         *)
(***************************************************************************)
\* The users table with the avatar of `caller` set to what the upload answered.
WithAvatar(caller, file) == [caller EXCEPT !.avatar_url = upload(file).secure_url]

AvatarStep ==
    LET r == resp'
        file == r.req.file
        callers == Named(r.req.token)
        untouched == users' = users /\ uploads' = uploads
    IN  (Request /\ r.op = "update_user_avatar") =>
            /\ users' # users =>
                    \E caller \in callers :
                        /\ caller.role = "admin"
                        /\ users' = (users \ {caller}) \cup {WithAvatar(caller, file)}
            /\ uploads' # uploads =>
                    /\ uploads' = uploads \cup {file}
                    /\ \E caller \in callers :
                            caller.role = "admin" /\ WithAvatar(caller, file) \in users'
            /\ r.status \in {401, 403, 422} => untouched
            /\ file = NoneVal => r.status = 422 /\ untouched
            /\ (file # NoneVal /\ purpose' = "malformed") =>
                    (r.status = 401 /\ r.detail = "Invalid token" /\ untouched)
            /\ (file # NoneVal /\ purpose' = "access"
                    /\ \A q \in callers : q.role # "admin") =>
                    /\ r.status = 403
                    /\ r.detail = "Only admin can change avatar"
                    /\ untouched
            /\ (file # NoneVal /\ r.status # 401 /\ \E q \in callers : q.role # "admin") =>
                    /\ r.status = 403
                    /\ r.detail = "Only admin can change avatar"
                    /\ untouched
            /\ r.status = 200 =>
                    \E caller \in callers :
                        /\ caller.role = "admin"
                        /\ r.body = UserOut(WithAvatar(caller, file))
                        /\ WithAvatar(caller, file) \in users'
                        /\ file \in uploads'

C13_AvatarAdminOnly == [][AvatarStep]_vars

\* bob, made admin, uploaded a file and his avatar_url is the uploaded file's
\* URL; the admin's is still unset.
C13_Witness ==
    /\ resp.op = "update_user_avatar"
    /\ resp.status = 200
    /\ resp.req.token.payload.user_id = Bob.id
    /\ resp.req.file \in uploads
    /\ \E u \in users : u.id = Bob.id /\ u.avatar_url = upload(resp.req.file).secure_url
    /\ \E u \in users : u.id = Admin.id /\ u.avatar_url = Null

(***************************************************************************)
(* C7: with TESTING unset, request_password_reset answers an email that    *)
(* belongs to a registered user with the same status and the same body as  *)
(* an email that belongs to no user.                                       *)
(***************************************************************************)
C7_SameAnswerForEveryEmail ==
    (resp.op = "request_password_reset" /\ env.TESTING # "1") =>
        /\ resp.status = Outcome("request_password_reset", [email |-> StrangerEmail],
                                 reset_request_answer(users, StrangerEmail)).status
        /\ resp.body = Outcome("request_password_reset", [email |-> StrangerEmail],
                               reset_request_answer(users, StrangerEmail)).body

(***************************************************************************)
(* C8: create_user answers 409 when the email is in use ("Email already    *)
(* registered", also when the username is in use too) or when only the     *)
(* username is in use ("Username already taken"), and then leaves the      *)
(* users table as it was; after every step no two users share a username   *)
(* or an email.                                                            *)
(***************************************************************************)
EmailInUse(email) == \E x \in users : x.email = email
UsernameInUse(username) == \E x \in users : x.username = username

ConflictStep ==
    LET r == resp'
    IN  r.op = "register" =>
            /\ EmailInUse(r.req.user.email) =>
                    /\ r.status = 409
                    /\ r.detail = "Email already registered"
                    /\ users' = users
            /\ (~EmailInUse(r.req.user.email) /\ UsernameInUse(r.req.user.username)) =>
                    /\ r.status = 409
                    /\ r.detail = "Username already taken"
                    /\ users' = users

UniqueUsers ==
    \A x, y \in users : x # y => (x.username # y.username /\ x.email # y.email)

C8_RegisterConflict == [][ConflictStep /\ UniqueUsers']_vars

\* A registration colliding on both the email and the username was refused
\* for its email.
C8_Witness ==
    /\ resp.op = "register"
    /\ resp.status = 409
    /\ resp.detail = "Email already registered"
    /\ EmailInUse(resp.req.user.email)
    /\ UsernameInUse(resp.req.user.username)
    /\ Cardinality(users) = 2

(***************************************************************************)
(* C9: authenticate_user returns the user whose username is given when the *)
(* password is the one its stored hash was made from; for an unknown       *)
(* username and for a wrong password it raises the same 401 "Invalid       *)
(* credentials"; it never changes the users table.                         *)
(***************************************************************************)
\* The users called `username` whose stored hash was made from `password`.
Matching(username, password) ==
    {x \in users : /\ x.username = username
                   /\ \E salt \in Salts : x.hashed_password = get_password_hash(password, salt)}

AuthenticateStep ==
    LET r == resp'
    IN  r.op = "authenticate_user" =>
            /\ users' = users
            /\ IF Matching(r.req.username, r.req.password) # {}
               THEN r.status = 200 /\ r.body \in Matching(r.req.username, r.req.password)
               ELSE r.status = 401 /\ r.detail = "Invalid credentials" /\ r.body = NoneVal

C9_Authenticate == [][AuthenticateStep]_vars

\* A registered username was refused for a wrong password.
C9_Witness ==
    /\ resp.op = "authenticate_user"
    /\ resp.status = 401
    /\ UsernameInUse(resp.req.username)
    /\ Matching(resp.req.username, resp.req.password) = {}

(***************************************************************************)
(* SpecToken: issuing a token of each class and decoding it at once, for   *)
(* the claims the routes sign and for claims under reserved names, for     *)
(* lifetimes down to a negative one, under default, per-class and given    *)
(* keys, while the clock advances.                                         *)
(***************************************************************************)
\* An environment that also sets SECRET_KEY
OwnKeyEnv == [SplitKeysEnv EXCEPT !.SECRET_KEY = "accesskey"]

\* The claims login signs, the claims /refresh signs for a token without an
\* email, those of test_create_and_decode_access_token, a claim of
\* another name, and claims under names that JWT reserves: exp, aud and sub.
ClaimSets ==
    {LoginClaims(Alice), [user_id |-> 2, email |-> NoneVal],
     [user_id |-> 123, email |-> "test@example.com"], [scope |-> "contacts"],
     [user_id |-> 5, exp |-> 1], [user_id |-> 5, aud |-> "contacts"],
     [sub |-> "alice", role |-> "admin"]}

\* Optional[timedelta]: absent, zero, lifetimes from a second to a day, and
\* a second in the past.
Ttls == {NoneVal, Seconds(0), Seconds(1), Minutes(5), Days(1), Seconds(0 - 1)}

\* Signing keys handed to _encode and _decode directly.
TokenKeys == {"supersecretkey", "k2"}

TokenUserIds == {0, 1, 123}

TokenFrame ==
    UNCHANGED <<users, contacts, contactSeq, cache, redisUp, now, today, env, inflight,
                uploads, purpose>>

InitToken ==
    /\ users = {}
    /\ contacts = {}
    /\ contactSeq = 0
    /\ cache = {}
    /\ redisUp = TRUE
    /\ now = 0
    /\ today = Date(2024, 6, 10)
    /\ env \in {DefaultEnv, SplitKeysEnv, OwnKeyEnv}
    /\ resp = NoResp
    /\ purpose = "none"
    /\ inflight = NoRequests
    /\ uploads = {}

AccessRoundTrip ==
    \E data \in ClaimSets, expires_delta \in Ttls :
        /\ resp' = Outcome("access_round_trip",
                           [data |-> data, expires_delta |-> expires_delta, at |-> now],
                           Return(decode_access_token(create_access_token(data, expires_delta))))
        /\ TokenFrame

RefreshRoundTrip ==
    \E data \in ClaimSets, expires_delta \in Ttls :
        /\ resp' = Outcome("refresh_round_trip",
                           [data |-> data, expires_delta |-> expires_delta, at |-> now],
                           Return(decode_refresh_token(create_refresh_token(data, expires_delta))))
        /\ TokenFrame

ResetRoundTrip ==
    \E user_id \in TokenUserIds, expires_delta \in Ttls :
        /\ resp' = Outcome("reset_round_trip",
                           [user_id |-> user_id, expires_delta |-> expires_delta, at |-> now],
                           Return(verify_reset_token(create_reset_token(user_id, expires_delta))))
        /\ TokenFrame

KeyRoundTrip ==
    \E data \in ClaimSets, key \in TokenKeys, expires_delta \in Ttls :
        /\ resp' = Outcome("key_round_trip",
                           [data |-> data, key |-> key, expires_delta |-> expires_delta,
                            at |-> now],
                           Return(_decode(_encode(data, key, expires_delta), key)))
        /\ TokenFrame

NextToken ==
    \/ AccessRoundTrip
    \/ RefreshRoundTrip
    \/ ResetRoundTrip
    \/ KeyRoundTrip
    \/ Tick

SpecToken == InitToken /\ [][NextToken]_vars

(***************************************************************************)
(* C10: a token decoded with its own key right after it was issued for a   *)
(* lifetime that is not negative gives back the claims it was issued for   *)
(* and, besides them, only exp, set to the time of issue plus the          *)
(* lifetime, replacing an exp the claims held; this for access and refresh *)
(* tokens and for any key, and for reset tokens the user id comes back.    *)
(* A token issued for a negative lifetime, or for claims that hold an aud, *)
(* decodes to None.                                                        *)
(***************************************************************************)
\* The lifetime in seconds that applies to a requested ttl.
Lifetime(expires_delta, default) ==
    IF expires_delta = NoneVal \/ expires_delta = Seconds(0)
    THEN default ELSE expires_delta.seconds

ClaimsPlusExp(payload, data, exp) ==
    /\ payload # NoneVal
    /\ DOMAIN payload = DOMAIN data \cup {"exp"}
    /\ \A k \in DOMAIN data \ {"exp"} : payload[k] = data[k]
    /\ payload.exp = exp

\* The class default that applies to the round trip `r`, in seconds.
DefaultLifetime(r) ==
    IF r.op = "refresh_round_trip" THEN 7 * 24 * 60 * 60
    ELSE IF r.op = "reset_round_trip" THEN 15 * 60
    ELSE 30 * 60

ClaimRoundTrips == {"access_round_trip", "refresh_round_trip", "key_round_trip"}

ExpiredRefreshOf(user) ==
    Held("expired", IssuedEarlier(create_refresh_token(LoginClaims(user), NoneVal),
                                  86400 * REFRESH_TOKEN_EXPIRE_DAYS + 1))
ExpiredResetOf(user) ==
    Held("expired", IssuedEarlier(create_reset_token(user.id, NoneVal),
                                  60 * RESET_TOKEN_EXPIRE_MINUTES + 1))
ForgedRefreshOf(user) ==
    Held("forged", Jwt(create_refresh_token(LoginClaims(user), NoneVal).payload, "attackerkey"))
ForgedResetOf(user) ==
    Held("forged", Jwt(create_reset_token(user.id, NoneVal).payload, "attackerkey"))

AccessBearers == {AccessOf(Admin), ExpiredAccessOf(Admin), ForgedOf(Admin), Malformed, Missing}
\* A refresh token whose claims carry no user_id.
NoUserIdRefresh == Held("nouid", create_refresh_token([email |-> "alice@x.com"], NoneVal))
RefreshBearers ==
    {RefreshOf(Admin), ExpiredRefreshOf(Admin), ForgedRefreshOf(Admin), NoUserIdRefresh,
     Malformed, Missing}
ResetBearers == {ResetOf(Bob), ExpiredResetOf(Bob), ForgedResetOf(Bob), Malformed, Missing}

RejectFrame == UNCHANGED <<redisUp, now, today, env, inflight, uploads>>

InitReject ==
    /\ users = {Admin, Bob}
    /\ contacts = {ContactRow(1, ContactPayload("Ann", "Lee", "ann@c.com", "111",
                                                Date(1990, 6, 12), "friend"), Admin.id)}
    /\ contactSeq = 1
    /\ cache = {}
    /\ redisUp = TRUE
    /\ now = 0
    /\ today = Date(2024, 6, 10)
    /\ env \in {DefaultEnv, SplitKeysEnv}
    /\ resp = NoResp
    /\ purpose = "none"
    /\ inflight = NoRequests
    /\ uploads = {}

CallDecodeAccessToken ==
    \E t \in AccessBearers :
        /\ resp' = Outcome("decode_access_token", [token |-> t.tok],
                           Return(decode_access_token(t.tok)))
        /\ purpose' = t.purpose
        /\ UNCHANGED <<users, contacts, contactSeq, cache>> /\ RejectFrame

CallDecodeRefreshToken ==
    \E t \in RefreshBearers :
        /\ resp' = Outcome("decode_refresh_token", [token |-> t.tok],
                           Return(decode_refresh_token(t.tok)))
        /\ purpose' = t.purpose
        /\ UNCHANGED <<users, contacts, contactSeq, cache>> /\ RejectFrame

CallVerifyResetToken ==
    \E t \in ResetBearers :
        /\ resp' = Outcome("verify_reset_token", [token |-> t.tok],
                           Return(verify_reset_token(t.tok)))
        /\ purpose' = t.purpose
        /\ UNCHANGED <<users, contacts, contactSeq, cache>> /\ RejectFrame

BearerLists ==
    \E t \in AccessBearers :
        /\ get_contacts(0, 100, t.tok)
        /\ purpose' = t.purpose
        /\ UNCHANGED <<users, cache>> /\ RejectFrame

BearerCreates ==
    \E t \in AccessBearers :
        /\ create_contact(ContactPayload("Ben", "Ray", "ben@c.com", "222", Date(2000, 2, 29), ""),
                          t.tok)
        /\ purpose' = t.purpose
        /\ UNCHANGED <<users, cache>> /\ RejectFrame

BearerMe ==
    \E t \in AccessBearers :
        /\ get_me(t.tok)
        /\ purpose' = t.purpose
        /\ UNCHANGED <<contacts, contactSeq>> /\ RejectFrame

BearerAvatar ==
    \E t \in AccessBearers, file \in AvatarFiles :
        update_user_avatar(t.tok, file) /\ purpose' = t.purpose /\ AvatarFrame

BearerSetRole ==
    \E t \in AccessBearers, role \in Roles :
        /\ set_role(Bob.id, role, t.tok)
        /\ purpose' = t.purpose
        /\ UNCHANGED <<contacts, contactSeq>> /\ RejectFrame

BearerRefresh ==
    \E t \in RefreshBearers :
        /\ refresh(t.tok)
        /\ purpose' = t.purpose
        /\ UNCHANGED <<contacts, contactSeq>> /\ RejectFrame

BearerResetPassword ==
    \E t \in ResetBearers :
        /\ reset_password(t.tok, "pw3", "s3")
        /\ purpose' = t.purpose
        /\ UNCHANGED <<contacts, contactSeq>> /\ RejectFrame

NextReject ==
    \/ CallDecodeAccessToken
    \/ CallDecodeRefreshToken
    \/ CallVerifyResetToken
    \/ BearerLists
    \/ BearerCreates
    \/ BearerMe
    \/ BearerAvatar
    \/ BearerSetRole
    \/ BearerRefresh
    \/ BearerResetPassword

SpecReject == InitReject /\ [][NextReject]_vars

(***************************************************************************)
(* C11: for a token that is expired, signed with another key, not a JWT or *)
(* empty, the decode functions return None without raising, and every      *)
(* route given such a token refuses the request (401; reset-password 400   *)
(* "Invalid or expired token") and changes nothing.                        *)
(***************************************************************************)
Undecodable == {"expired", "forged", "malformed", "missing"}
DecodeOps == {"decode_access_token", "decode_refresh_token", "verify_reset_token"}
BearerOps ==
    {"get_contacts", "create_contact", "get_me", "update_user_avatar", "set_role", "refresh"}

UndecodableStep ==
    LET r == resp'
    IN  (purpose' \in Undecodable /\ r.op # "init") =>
            /\ r.op \in DecodeOps => (r.status = 200 /\ r.body = NoneVal)
            /\ r.op \in BearerOps => r.status = HTTP_401_UNAUTHORIZED
            /\ r.op = "reset_password" =>
                    (r.status = 400 /\ r.detail = "Invalid or expired token")
            /\ UNCHANGED <<users, contacts, contactSeq, cache>>

C11_UndecodableTokens == [][UndecodableStep]_vars

\* An access token a second past its lifetime was refused by GET /users/me.
C11_Witness ==
    /\ resp.op = "get_me"
    /\ purpose = "expired"
    /\ resp.req.token.key = SECRET_KEY
    /\ resp.req.token.payload.exp < now
    /\ resp.status = HTTP_401_UNAUTHORIZED

(***************************************************************************)
(* C14: an authenticated create_contact answers 409 exactly when some      *)
(* contact, of whatever owner, already has the payload's email, and then   *)
(* leaves the contacts table as it was; otherwise it adds one contact that *)
(* carries the payload's six fields.                                       *)
(***************************************************************************)
MutableFields == {"first_name", "last_name", "email", "phone", "birthday", "extra"}

Carries(c, payload) == \A f \in MutableFields : c[f] = payload[f]

CreateStep ==
    LET r == resp'
    IN  (r.op = "create_contact" /\ r.status # HTTP_401_UNAUTHORIZED) =>
            IF \E c \in contacts : c.email = r.req.contact.email
            THEN /\ r.status = HTTP_409_CONFLICT
                 /\ r.detail = "Contact with this email already exists"
                 /\ contacts' = contacts
            ELSE /\ r.status = 200
                 /\ r.body \notin contacts
                 /\ contacts' = contacts \cup {r.body}
                 /\ Carries(r.body, r.req.contact)
                 /\ \A c \in contacts : c.id # r.body.id

C14_CreateConflict == [][CreateStep]_vars

\* bob was refused an email that a contact of alice holds.
C14_Witness ==
    /\ resp.op = "create_contact"
    /\ resp.status = HTTP_409_CONFLICT
    /\ Caller(resp) = Bob.id
    /\ \E c \in contacts : c.email = resp.req.contact.email /\ c.user_id = Alice.id
    /\ \A c \in contacts : c.user_id # Bob.id

(***************************************************************************)
(* C15: after every step of create_contact, update_contact and             *)
(* delete_contact by any users no two contacts share an email, and an      *)
(* update_contact that succeeds never gives a contact an email that a      *)
(* different contact held.                                                 *)
(***************************************************************************)
UniqueContactEmails ==
    \A c, d \in contacts : c # d => c.email # d.email

UpdateEmailStep ==
    LET r == resp'
    IN  (r.op = "update_contact" /\ r.status = 200) =>
            \A c \in contacts : c.id # r.req.contact_id => c.email # r.req.contact.email

C15_ContactEmailsUnique == [][UniqueContactEmails' /\ UpdateEmailStep]_vars

\* An update to the email of another owner's contact was rejected; both
\* contacts are still there with their emails.
C15_Witness ==
    /\ resp.op = "update_contact"
    /\ resp.status = HTTP_500_INTERNAL_SERVER_ERROR
    /\ Cardinality(contacts) = 2
    /\ \E c \in contacts : c.id # resp.req.contact_id /\ c.email = resp.req.contact.email
                           /\ c.user_id # Caller(resp)
    /\ \E c \in contacts : c.id = resp.req.contact_id /\ c.email # resp.req.contact.email

(***************************************************************************)
(* C16: a contact's user_id is the user id of the access token that        *)
(* created it, whatever user_id the payload carries, and no step changes   *)
(* the user_id of a contact; update_contact keeps id and user_id also when *)
(* its payload carries another user_id.                                    *)
(***************************************************************************)
OwnerStep ==
    LET r == resp'
    IN  /\ (r.op = "create_contact" /\ r.status = 200) =>
                /\ r.body.user_id = Caller(r)
                /\ r.body \in contacts'
        /\ (r.op = "update_contact" /\ r.status = 200) =>
                /\ r.body.id = r.req.contact_id
                /\ r.body.user_id = Caller(r)
                /\ \E c \in contacts : c.id = r.body.id /\ c.user_id = r.body.user_id
                /\ r.body \in contacts'
        /\ r.op # "create_contact" =>
                \A c \in contacts : \A d \in contacts' : d.id = c.id => d.user_id = c.user_id

C16_OwnerFixed == [][OwnerStep]_vars

\* alice updated her contact with a payload that names bob as user_id; the
\* contact is still hers.
C16_Witness ==
    /\ resp.op = "update_contact"
    /\ resp.status = 200
    /\ "user_id" \in DOMAIN resp.req.contact
    /\ resp.req.contact.user_id = Bob.id
    /\ Caller(resp) = Alice.id
    /\ \E c \in contacts : c.id = resp.req.contact_id /\ c.user_id = Alice.id

(***************************************************************************)
(* C17: an update_contact that succeeds replaces first_name, last_name,    *)
(* email, phone, birthday and extra of the caller's contact with that id   *)
(* by the payload's values, keeps its id and user_id, and leaves every     *)
(* other contact as it was; get_contact returns the row as stored.         *)
(***************************************************************************)
UpdateStep ==
    LET r == resp'
    IN  /\ (r.op = "update_contact" /\ r.status = 200) =>
                \E old \in contacts :
                    /\ old.id = r.req.contact_id
                    /\ old.user_id = Caller(r)
                    /\ contacts' = (contacts \ {old}) \cup {r.body}
                    /\ Carries(r.body, r.req.contact)
                    /\ DOMAIN r.body = MutableFields \cup {"id", "user_id"}
                    /\ r.body.id = old.id
                    /\ r.body.user_id = old.user_id
        /\ (r.op = "get_contact" /\ r.status = 200) =>
                /\ r.body \in contacts'
                /\ r.body.id = r.req.contact_id
                /\ contacts' = contacts

C17_UpdateReplacesFields == [][UpdateStep]_vars

\* alice's contact was rewritten with another payload while bob's contact
\* stayed.
C17_Witness ==
    /\ resp.op = "update_contact"
    /\ resp.status = 200
    /\ Caller(resp) = Alice.id
    /\ resp.req.contact.extra = "friend"
    /\ \E c \in contacts : c.id = resp.req.contact_id /\ Carries(c, resp.req.contact)
    /\ \E c \in contacts : c.id # resp.req.contact_id /\ c.user_id = Bob.id

(***************************************************************************)
(* C18: delete_contact by the owner of an existing contact returns True    *)
(* and removes that contact and no other; for an id the caller has no      *)
(* contact under it raises 404 and never returns False; get, update and    *)
(* delete on an id that has no row answer 404.  An id whose contact was    *)
(* deleted has no row again until create_contact hands the id out anew,    *)
(* which only SQLite does, and only for the highest id of the table.       *)
(***************************************************************************)
Absent(id, rows) == \A c \in rows : c.id # id

DeleteStep ==
    LET r == resp'
    IN  /\ r.op = "delete_contact" =>
                /\ r.status \in {200, HTTP_401_UNAUTHORIZED, HTTP_404_NOT_FOUND}
                /\ r.status = 200 =>
                        /\ r.body = TRUE
                        /\ \E c \in contacts :
                                /\ c.id = r.req.contact_id
                                /\ c.user_id = Caller(r)
                                /\ contacts' = contacts \ {c}
                /\ r.status # 200 => contacts' = contacts
                /\ r.status # HTTP_401_UNAUTHORIZED =>
                        (r.status = 200 <=>
                            \E c \in contacts : c.id = r.req.contact_id /\ c.user_id = Caller(r))
        /\ (r.op \in ByIdOps /\ r.status # HTTP_401_UNAUTHORIZED
                /\ Absent(r.req.contact_id, contacts)) => NotFoundOutcome(r)

\* The ids handed out so far
HandedOut == 1..contactSeq

ReusedStep ==
    \A id \in HandedOut :
        (Absent(id, contacts) /\ ~Absent(id, contacts')) =>
            /\ env.DATABASE_URL = "sqlite"
            /\ resp'.op = "create_contact"
            /\ resp'.status = 200
            /\ resp'.body.id = id
            /\ \A c \in contacts : c.id < id

C18_DeleteRemovesOne == [][DeleteStep /\ ReusedStep]_vars

\* C18 as stated: once its contact is deleted, an id never has a row again,
\* so every later get, update or delete on it answers 404.
C18_DeletedIdNeverReturns ==
    [][DeleteStep /\ \A id \in HandedOut : Absent(id, contacts) => Absent(id, contacts')]_vars

\* bob deleted his contact; its id has no row, alice's contact is there.
C18_Witness ==
    /\ resp.op = "delete_contact"
    /\ resp.status = 200
    /\ resp.body = TRUE
    /\ Caller(resp) = Bob.id
    /\ resp.req.contact_id \in HandedOut
    /\ Absent(resp.req.contact_id, contacts)
    /\ \E c \in contacts : c.user_id = Alice.id

(***************************************************************************)
(* SpecSearch: GET /contacts/search over seeded contacts of two users,     *)
(* whose text fields are written out character by character.               *)
(***************************************************************************)
AnnLee ==
    ContactRow(1, ContactPayload(<<"A", "n", "n">>, <<"L", "e", "e">>,
                                 <<"a", "n", "n", "@", "c">>, <<"1", "1">>,
                                 Date(1990, 6, 12), ""), Alice.id)
BenRay ==
    ContactRow(2, ContactPayload(<<"B", "e", "n">>, <<"R", "a", "y">>,
                                 <<"b", "_", "r", "@", "c">>, <<"2", "2">>,
                                 Date(2000, 2, 29), ""), Alice.id)
NanEll ==
    ContactRow(3, ContactPayload(<<"N", "a", "n">>, <<"E", "l", "l">>,
                                 <<"n", "e", "@", "c">>, <<"1", "2">>,
                                 Date(1985, 12, 31), ""), Bob.id)

SeedTables == {{AnnLee, BenRay, NanEll}, {AnnLee, NanEll}, {BenRay}}

\* Characters a search text is made of, and the longest search text.
QueryChars == {"a", "N", "e", "1", "z", "%", "_"}
MaxQueryLen == 2

\* Query(..., min_length=1)
Queries == UNION {[1..n -> QueryChars] : n \in 1..MaxQueryLen}

SearchTokens == {AccessOf(Alice), AccessOf(Bob), Malformed}

InitSearch ==
    /\ users = {Alice, Bob}
    /\ contacts \in SeedTables
    /\ contactSeq = 3
    /\ cache = {}
    /\ redisUp = TRUE
    /\ now = 0
    /\ today = Date(2024, 6, 10)
    /\ env = DefaultEnv
    /\ resp = NoResp
    /\ purpose = "none"
    /\ inflight = NoRequests
    /\ uploads = {}

SearchContacts ==
    \E t \in SearchTokens, query \in Queries :
        search_contacts(query, t.tok) /\ purpose' = t.purpose /\ ContactsFrame

NextSearch == SearchContacts

SpecSearch == InitSearch /\ [][NextSearch]_vars

(***************************************************************************)
(* C19: for every non-empty search text, '%' and '_' included,             *)
(* search_contacts returns exactly the caller's contacts in which the text *)
(* occurs, letter case aside, as a substring of the first name, the last   *)
(* name, the email or the phone; an empty list when there is none.         *)
(***************************************************************************)
\* `needle` occurs in `text`, letter case aside.
Occurs(needle, text) ==
    \E i \in 1..(Len(text) - Len(needle) + 1) :
        \A j \in 1..Len(needle) : Lower(text[i + j - 1]) = Lower(needle[j])

C19_SearchIsSubstring ==
    (resp.op = "search_contacts" /\ resp.status = 200) =>
        resp.body = {c \in contacts :
                        /\ c.user_id = Caller(resp)
                        /\ \/ Occurs(resp.req.query, c.first_name)
                           \/ Occurs(resp.req.query, c.last_name)
                           \/ Occurs(resp.req.query, c.email)
                           \/ Occurs(resp.req.query, c.phone)}

(***************************************************************************)
(* C20: a repository operation that fails raises 401, 404 or 409, also     *)
(* update_contact given an email that another contact holds.               *)
(***************************************************************************)
RepositoryOps ==
    {"create_user", "authenticate_user", "verify_user_email", "update_avatar",
     "create_contact", "get_contact", "update_contact", "delete_contact"}

C20_TypedFailures ==
    (resp.op \in RepositoryOps /\ resp.status # 200) =>
        resp.status \in {HTTP_401_UNAUTHORIZED, HTTP_404_NOT_FOUND, HTTP_409_CONFLICT}

(***************************************************************************)
(* SpecReset: the password reset flow over two registered users, with      *)
(* reset tokens that are good, expired, forged, no token at all, and good  *)
(* for a user id that has no row.                                          *)
(***************************************************************************)
NewPasswords == {"pw1", "pw2", "pw3"}

ResetHolders ==
    {ResetOf(Alice), ResetOf(Bob), ResetOf(Stranger),
     ExpiredResetOf(Alice), ForgedResetOf(Alice), Malformed}

InitReset ==
    /\ users = {Alice, Bob}
    /\ contacts = {}
    /\ contactSeq = 0
    /\ cache = {}
    /\ redisUp = TRUE
    /\ now = 0
    /\ today = Date(2024, 6, 10)
    /\ env \in {DefaultEnv, TestEnv}
    /\ resp = NoResp
    /\ purpose = "none"
    /\ inflight = NoRequests
    /\ uploads = {}

\* POST /users/request-reset
AskReset ==
    \E email \in Emails \cup {StrangerEmail} :
        request_password_reset(email) /\ purpose' = "none" /\ UsersFrame

\* POST /users/reset-password
UseReset ==
    \E t \in ResetHolders, new_password \in NewPasswords, salt \in Salts :
        reset_password(t.tok, new_password, salt) /\ purpose' = t.purpose /\ UsersFrame

\* authenticate_user as the login route calls it.
TryPassword ==
    \E username \in Usernames, password \in NewPasswords :
        /\ resp' = Outcome("authenticate_user", [username |-> username, password |-> password],
                           authenticate_user(users, username, password))
        /\ purpose' = "none"
        /\ UNCHANGED <<users, cache>> /\ UsersFrame

NextReset ==
    \/ AskReset
    \/ UseReset
    \/ TryPassword

SpecReset == InitReset /\ [][NextReset]_vars

(***************************************************************************)
(* C21: a reset-password with a valid reset token of user u answers 200,   *)
(* after which authenticate_user with u's username succeeds with the new   *)
(* password and fails with the old one when that differs, and no other     *)
(* user's password hash has changed; an invalid or expired token gets 400  *)
(* and a token of a user without a row 404, and then no password hash      *)
(* changes.                                                                *)
(***************************************************************************)
\* The passwords a stored hash was made from.
PasswordsOf(user) == {p \in NewPasswords : verify_password(p, user.hashed_password)}

\* authenticate_user(username, password) over the users table `db` succeeds.
LogsIn(db, username, password) ==
    \E x \in db : /\ x.username = username
                  /\ verify_password(password, x.hashed_password)
                  /\ \A y \in db : y.username = username => y = x

ResetStep ==
    LET r == resp'
        holders == IF r.req.reset_token.payload = NoneVal THEN {}
                   ELSE {u \in users : u.id = r.req.reset_token.payload.user_id}
    IN  r.op = "reset_password" =>
            /\ purpose' \in Undecodable =>
                    /\ r.status = 400
                    /\ r.detail = "Invalid or expired token"
                    /\ users' = users
            /\ (purpose' = "reset" /\ holders = {}) =>
                    /\ r.status = HTTP_404_NOT_FOUND
                    /\ users' = users
            /\ (purpose' = "reset" /\ holders # {}) => r.status = 200
            /\ r.status = 200 =>
                    \A u \in holders :
                        /\ LogsIn(users', u.username, r.req.new_password)
                        /\ \A old \in PasswordsOf(u) :
                                old # r.req.new_password => ~LogsIn(users', u.username, old)
                        /\ \A other \in users : other.id # u.id => other \in users'
                        /\ Cardinality(users') = Cardinality(users)
            /\ r.status = 200 => holders # {}

C21_ResetPassword == [][ResetStep]_vars

\* bob's password was reset to one that is not the password he registered
\* with; alice's hash is the one she registered with.
C21_Witness ==
    /\ resp.op = "reset_password"
    /\ resp.status = 200
    /\ resp.req.reset_token.payload.user_id = Bob.id
    /\ resp.req.new_password = "pw3"
    /\ LogsIn(users, Bob.username, "pw3")
    /\ ~LogsIn(users, Bob.username, "pw2")
    /\ Alice \in users

(***************************************************************************)
(* C22: a reset token that was used in a successful reset-password is      *)
(* rejected by the next reset-password that presents it, which changes no  *)
(* password hash.                                                          *)
(***************************************************************************)
C22_ResetTokenSingleUse ==
    [][(/\ resp.op = "reset_password" /\ resp.status = 200
        /\ resp'.op = "reset_password"
        /\ resp'.req.reset_token = resp.req.reset_token)
            => (resp'.status # 200 /\ users' = users)]_vars

(***************************************************************************)
(* C23: POST /users/refresh with a refresh token that is neither expired   *)
(* nor forged answers 200 with a new access token carrying the refresh     *)
(* token's user_id and email and with the same refresh token, and changes  *)
(* neither the tables nor the cache; with a refresh token that is expired, *)
(* forged, no token, or without a user_id it answers 401 and issues no     *)
(* token.                                                                  *)
(***************************************************************************)
RefreshStep ==
    LET r == resp'
    IN  r.op = "refresh" =>
            /\ UNCHANGED <<users, contacts, contactSeq, cache>>
            /\ purpose' = "refresh" =>
                    /\ r.status = 200
                    /\ r.body.refresh_token = r.req.token
                    /\ r.body.token_type = "bearer"
                    /\ r.body.access_token.payload.user_id = r.req.token.payload.user_id
                    /\ r.body.access_token.payload.email = r.req.token.payload.email
                    /\ r.body.access_token.payload.exp = now + 60 * ACCESS_TOKEN_EXPIRE_MINUTES
                    /\ r.body.access_token.key = SECRET_KEY
            /\ purpose' \in Undecodable \cup {"nouid"} =>
                    /\ r.status = HTTP_401_UNAUTHORIZED
                    /\ r.detail = "Invalid refresh token"
                    /\ r.body = NoneVal

C23_Refresh == [][RefreshStep]_vars

\* The admin's refresh token was exchanged while her cache entry was live.
C23_Witness ==
    /\ resp.op = "refresh"
    /\ purpose = "refresh"
    /\ resp.status = 200
    /\ resp.body.access_token.payload.user_id = Admin.id
    /\ resp.body.refresh_token = RefreshOf(Admin).tok
    /\ \E e \in cache : e.key = UserKey(Admin.id)

(***************************************************************************)
(* SpecAccounts: every /users route and the repository's verification over *)
(* two registered users, of whom one may be an admin, and one more account *)
(* that may register.                                                      *)
(***************************************************************************)
Carol == [username |-> "carol", email |-> "carol@x.com", password |-> "pw3"]

AccountIds == 1..4
AccountTokens == {AccessOf(Admin), AccessOf(Bob)}

InitAccounts ==
    /\ users \in {{Admin, Bob}, {Alice, Bob}}
    /\ contacts = {}
    /\ contactSeq = 0
    /\ cache = {}
    /\ redisUp = TRUE
    /\ now = 0
    /\ today = Date(2024, 6, 10)
    /\ env = DefaultEnv
    /\ resp = NoResp
    /\ purpose = "none"
    /\ inflight = NoRequests
    /\ uploads = {}

AccountRegister ==
    register(Carol, "s3") /\ purpose' = "none" /\ ProfileFrame

\* verify_user_email called on the repository, as the verify route calls it.
CallVerifyUserEmail ==
    \E user_id \in AccountIds :
        LET written == verify_user_email(users, user_id)
        IN  /\ resp' = Outcome("verify_user_email", [user_id |-> user_id], written)
            /\ users' = IF written.raised THEN users ELSE written.value.db
            /\ purpose' = "none"
            /\ UNCHANGED cache /\ ProfileFrame

AccountVerify ==
    \E user_id \in AccountIds :
        verify_email(user_id) /\ purpose' = "none" /\ ProfileFrame

AccountLogin ==
    login("bob", "pw2") /\ purpose' = "none" /\ ProfileFrame

AccountMe ==
    \E t \in AccountTokens :
        get_me(t.tok) /\ purpose' = t.purpose /\ ProfileFrame

AccountAvatar ==
    \E t \in AccountTokens, file \in AvatarFiles :
        update_user_avatar(t.tok, file) /\ purpose' = t.purpose /\ AvatarFrame

AccountSetRole ==
    \E user_id \in 2..3, role \in {"user", "admin"}, t \in AccountTokens :
        set_role(user_id, role, t.tok) /\ purpose' = t.purpose /\ ProfileFrame

AccountReset ==
    reset_password(ResetOf(Bob).tok, "pw3", "s3") /\ purpose' = "reset" /\ ProfileFrame

AccountRefresh ==
    refresh(RefreshOf(Bob).tok) /\ purpose' = "refresh" /\ ProfileFrame

AccountAskReset ==
    request_password_reset(Bob.email) /\ purpose' = "none" /\ ProfileFrame

NextAccounts ==
    \/ AccountRegister
    \/ CallVerifyUserEmail
    \/ AccountVerify
    \/ AccountLogin
    \/ AccountMe
    \/ AccountAvatar
    \/ AccountSetRole
    \/ AccountReset
    \/ AccountRefresh
    \/ AccountAskReset

SpecAccounts == InitAccounts /\ [][NextAccounts]_vars

(***************************************************************************)
(* C24: verify_user_email on an existing user sets is_verified and leaves  *)
(* every other field and every other user as they were, so that a second   *)
(* application changes nothing; for an id without a row it raises 404 and  *)
(* changes no record; and no operation sets a verified user's flag back.   *)
(***************************************************************************)
VerifiedStays ==
    \A u \in users : u.is_verified => \E v \in users' : v.id = u.id /\ v.is_verified

VerifyStep ==
    LET r == resp'
        found == {u \in users : u.id = r.req.user_id}
    IN  r.op = "verify_user_email" =>
            IF found = {}
            THEN r.status = HTTP_404_NOT_FOUND /\ r.detail = "User not found" /\ users' = users
            ELSE \E u \in found :
                    /\ r.status = 200
                    /\ r.body.obj = [u EXCEPT !.is_verified = TRUE]
                    /\ users' = (users \ {u}) \cup {[u EXCEPT !.is_verified = TRUE]}
                    /\ u.is_verified => users' = users

C24_VerifyIdempotent == [][VerifyStep /\ VerifiedStays]_vars

\* bob, an admin with an avatar by now, was verified; carol registered later
\* and is not.
C24_Witness ==
    /\ resp.op = "verify_user_email"
    /\ resp.status = 200
    /\ resp.req.user_id = Bob.id
    /\ \E u \in users : /\ u.id = Bob.id /\ u.is_verified
                        /\ u.role = "admin" /\ u.avatar_url # Null
    /\ \E u \in users : u.id = 3 /\ ~u.is_verified

(***************************************************************************)
(* C29: a user has role admin after a step only if that user had it before *)
(* the step or the step is a set_role request whose token names a user     *)
(* with stored role admin; so from a users table without an admin no       *)
(* sequence of register, login, refresh, verify, me, avatar,               *)
(* request-reset, reset-password and set-role requests makes one.          *)
(***************************************************************************)
Admins(db) == {u.id : u \in {x \in db : x.role = "admin"}}

EscalationStep ==
    /\ \A id \in Admins(users') \ Admins(users) :
            /\ resp'.op = "set_role"
            /\ resp'.req.user_id = id
            /\ resp'.req.role = "admin"
            /\ \E q \in Named(resp'.req.token) : q.role = "admin"
    /\ Admins(users) = {} => Admins(users') = {}

C29_NoPrivilegeEscalation == [][EscalationStep]_vars

\* With three registered users and no admin among them, the request to make
\* bob an admin was refused.
C29_Witness ==
    /\ Admins(users) = {}
    /\ Cardinality(users) = 3
    /\ resp.op = "set_role"
    /\ resp.req.role = "admin"
    /\ resp.req.user_id = Bob.id
    /\ resp.status = 403
    /\ \E u \in users : u.id = Bob.id /\ u.is_verified

(***************************************************************************)
(* C25: a GET /users/me that answers 200 returns the stored record of the  *)
(* user its token names (id, email, role, verified flag, avatar URL),      *)
(* whatever the cache holds under that user's key.                         *)
(***************************************************************************)
\* The cached documents under the key of user `id` that have not expired.
CachedFor(id) == {json_loads(e.val) : e \in {x \in Live(cache) : x.key = UserKey(id)}}

C25_MeReturnsStoredRecord ==
    (resp.op = "get_me" /\ resp.status = 200) =>
        \E u \in users :
            /\ u.id = resp.req.token.payload.user_id
            /\ resp.body = UserOut(u)

\* bob asked for his profile while his cache entry still carried the role he
\* had before it was changed, and was answered with the stored role.
C25_Witness ==
    /\ resp.op = "get_me"
    /\ resp.status = 200
    /\ purpose = "access"
    /\ resp.req.token.payload.user_id = Bob.id
    /\ \E u \in users : u.id = Bob.id /\ resp.body.role = u.role /\ u.is_verified
    /\ \E d \in CachedFor(Bob.id) : d.role # resp.body.role

(***************************************************************************)
(* C26: after a login, GET /users/me, verify_email, avatar update or       *)
(* set_role that answered 200 for user u, the cache holds under u's key an *)
(* entry with u's stored email and u's stored role.                        *)
(***************************************************************************)
\* The stored rows of the user a request of a cached route is about.
Subject(r) ==
    IF r.op = "login" THEN {u \in users : u.username = r.req.username}
    ELSE IF r.op \in {"get_me", "update_user_avatar"}
    THEN {u \in users : u.id = r.req.token.payload.user_id}
    ELSE {u \in users : u.id = r.req.user_id}

C26_CacheFollowsMutations ==
    (resp.op \in CachedOps /\ resp.status = 200) =>
        \A u \in Subject(resp) :
            \E d \in CachedFor(u.id) : d.email = u.email /\ d.role = u.role

(***************************************************************************)
(* SpecRace: one GET /users/me of bob and one set_role on bob by the       *)
(* admin, served concurrently.  Each request advances by the statements    *)
(* that touch Redis or the database; the other request may run between any *)
(* two of them.  Redis answers every call.                                 *)
(***************************************************************************)
RaceFrame == UNCHANGED <<uploads, contacts, contactSeq, redisUp, today, env, purpose>>

\* bob as stored when the requests arrive.
RaceUsers == {{Admin, Bob}, {Admin, [Bob EXCEPT !.role = "admin"]}}

\* What Redis holds for bob when the requests arrive: nothing, the entry a
\* /me or a mutation left, or the entry a login left.
RaceCaches(user) ==
    {{},
     {[key |-> UserKey(user.id), val |-> json_dumps(Projection(user)),
       exp |-> DEFAULT_TTL_SECONDS]},
     {[key |-> UserKey(user.id), exp |-> DEFAULT_TTL_SECONDS,
       val |-> json_dumps([id |-> user.id, username |-> user.username,
                           email |-> user.email, role |-> user.role])]}}

InitRace ==
    /\ users \in RaceUsers
    /\ contacts = {}
    /\ contactSeq = 0
    /\ now = 0
    /\ cache \in RaceCaches(First(ById(users, Bob.id)))
    /\ redisUp = TRUE
    /\ today = Date(2024, 6, 10)
    /\ env = DefaultEnv
    /\ resp = NoResp
    /\ purpose = "access"
    /\ uploads = {}
    /\ \E role \in {"user", "admin"} :
            inflight = [me  |-> [pc |-> "cache_read", token |-> AccessOf(Bob).tok,
                                 cached |-> NoneVal, user |-> NoneVal, wrote |-> FALSE],
                        set |-> [pc |-> "commit", token |-> AccessOf(Admin).tok,
                                 user_id |-> Bob.id, role |-> role, target |-> NoneVal]]

\* get_me, line 178-181: decode the token, read the cache.
MeCacheRead ==
    LET me == inflight.me
        payload == decode_access_token(me.token)
        cached == get_cached_user(cache, payload.user_id)
        hit == cached.value # NoneVal /\ "user_id" \in DOMAIN cached.value
    IN  /\ me.pc = "cache_read"
        /\ payload # NoneVal /\ ~cached.raised
        /\ inflight' = [inflight EXCEPT !.me = [me EXCEPT !.cached = cached.value,
                                    !.pc = IF hit THEN "db_read_cached" ELSE "db_read"]]
        /\ UNCHANGED <<users, cache, resp, now>> /\ RaceFrame

\* get_me, line 183-185: the row of the cached user_id, returned when found.
MeDbReadCached ==
    LET me == inflight.me
        found == ById(users, me.cached.user_id)
    IN  /\ me.pc = "db_read_cached"
        /\ IF found # {}
           THEN /\ inflight' = [inflight EXCEPT !.me = [me EXCEPT !.user = First(found),
                                                                 !.pc = "done"]]
                /\ resp' = Outcome("get_me", [token |-> me.token],
                                   Return(UserOut(First(found))))
           ELSE /\ inflight' = [inflight EXCEPT !.me = [me EXCEPT !.pc = "db_read"]]
                /\ UNCHANGED resp
        /\ UNCHANGED <<users, cache, now>> /\ RaceFrame

\* get_me, line 186-188: the row of the token's user_id.
MeDbRead ==
    LET me == inflight.me
        found == ById(users, decode_access_token(me.token).user_id)
    IN  /\ me.pc = "db_read"
        /\ IF found = {}
           THEN /\ inflight' = [inflight EXCEPT !.me = [me EXCEPT !.pc = "done"]]
                /\ resp' = Outcome("get_me", [token |-> me.token],
                                   Raise(HTTP_404_NOT_FOUND, "User not found"))
           ELSE /\ inflight' = [inflight EXCEPT !.me = [me EXCEPT !.user = First(found),
                                                                 !.pc = "cache_write"]]
                /\ UNCHANGED resp
        /\ UNCHANGED <<users, cache, now>> /\ RaceFrame

\* get_me, line 190-191: prime the cache with the row read, and return it.
MeCacheWrite ==
    LET me == inflight.me
        primed == update_user_cache(cache, me.user.id, Projection(me.user),
                                    DEFAULT_TTL_SECONDS)
    IN  /\ me.pc = "cache_write"
        /\ ~primed.raised
        /\ cache' = primed.value
        /\ inflight' = [inflight EXCEPT !.me = [me EXCEPT !.wrote = TRUE, !.pc = "done"]]
        /\ resp' = Outcome("get_me", [token |-> me.token], Return(UserOut(me.user)))
        /\ UNCHANGED <<users, now>> /\ RaceFrame

\* set_role, line 267-288: the checks, the assignment and the commit.
SetCommit ==
    LET set == inflight.set
        payload == decode_access_token(set.token)
        req == [user_id |-> set.user_id, role |-> set.role, token |-> set.token]
        requester == IF payload # NoneVal /\ "user_id" \in DOMAIN payload
                     THEN ById(users, payload.user_id) ELSE {}
        target == ById(users, set.user_id)
        refuse(result) ==
            /\ resp' = Outcome("set_role", req, result)
            /\ inflight' = [inflight EXCEPT !.set = [set EXCEPT !.pc = "done"]]
            /\ UNCHANGED users
    IN  /\ set.pc = "commit"
        /\ IF payload = NoneVal THEN refuse(Raise(HTTP_401_UNAUTHORIZED, "Invalid token"))
           ELSE IF requester = {} THEN refuse(Raise(HTTP_404_NOT_FOUND, "Requester not found"))
           ELSE IF First(requester).role # "admin"
           THEN refuse(Raise(403, "Only admin can change user roles"))
           ELSE IF target = {} THEN refuse(Raise(HTTP_404_NOT_FOUND, "User not found"))
           ELSE IF set.role \notin {"user", "admin"} THEN refuse(Raise(400, "Invalid role"))
           ELSE LET changed == [First(target) EXCEPT !.role = set.role]
                IN  /\ users' = (users \ target) \cup {changed}
                    /\ inflight' = [inflight EXCEPT !.set = [set EXCEPT !.target = changed,
                                                                       !.pc = "cache_delete"]]
                    /\ UNCHANGED resp
        /\ UNCHANGED <<cache, now>> /\ RaceFrame

\* set_role, line 290
SetCacheDelete ==
    LET set == inflight.set
    IN  /\ set.pc = "cache_delete"
        /\ cache' = delete_user_cache(cache, set.target.id)
        /\ inflight' = [inflight EXCEPT !.set = [set EXCEPT !.pc = "cache_write"]]
        /\ UNCHANGED <<users, resp, now>> /\ RaceFrame

\* set_role, line 291-292
SetCacheWrite ==
    LET set == inflight.set
        cached == update_user_cache(cache, set.target.id, Projection(set.target),
                                    DEFAULT_TTL_SECONDS)
    IN  /\ set.pc = "cache_write"
        /\ ~cached.raised
        /\ cache' = cached.value
        /\ inflight' = [inflight EXCEPT !.set = [set EXCEPT !.pc = "done"]]
        /\ resp' = Outcome("set_role",
                           [user_id |-> set.user_id, role |-> set.role, token |-> set.token],
                           Return(UserOut(set.target)))
        /\ UNCHANGED <<users, now>> /\ RaceFrame

BothDone == inflight.me.pc = "done" /\ inflight.set.pc = "done"

\* The ttl of the entries elapses after both requests were answered.
TtlElapses ==
    /\ BothDone
    /\ now < DEFAULT_TTL_SECONDS
    /\ now' = now + DEFAULT_TTL_SECONDS
    /\ UNCHANGED <<users, cache, resp, inflight>> /\ RaceFrame

NextRace ==
    \/ MeCacheRead
    \/ MeDbReadCached
    \/ MeDbRead
    \/ MeCacheWrite
    \/ SetCommit
    \/ SetCacheDelete
    \/ SetCacheWrite
    \/ TtlElapses

SpecRace == InitRace /\ [][NextRace]_vars

(***************************************************************************)
(* C27: once a GET /users/me and a concurrent set_role on the same user    *)
(* have both completed, a cache entry under the user's key carries the     *)
(* stored role, or else it is the entry the /me wrote from the row it had  *)
(* read before the commit, and that entry is gone once its ttl of          *)
(* DEFAULT_TTL_SECONDS has elapsed.                                        *)
(***************************************************************************)
StoredRole(id) == First(ById(users, id)).role

\* The live entries under bob's key whose role is not his stored role.
Outdated == {e \in Live(cache) : /\ e.key = UserKey(Bob.id)
                                 /\ json_loads(e.val).role # StoredRole(Bob.id)}

C27_StalenessBoundedByTtl ==
    BothDone =>
        /\ \A e \in Outdated :
                /\ inflight.me.wrote
                /\ json_loads(e.val) = Projection(inflight.me.user)
                /\ e.exp <= DEFAULT_TTL_SECONDS
        /\ now >= DEFAULT_TTL_SECONDS => Outdated = {}

\* The statement as claimed: after both requests no entry is outdated.
C27_CacheRoleMatchesAfterRace == BothDone => Outdated = {}

\* Both requests were answered, the /me last and with the role it had read
\* before the commit, and its cache entry carries that role.
C27_Witness ==
    /\ BothDone
    /\ resp.op = "get_me"
    /\ resp.status = 200
    /\ inflight.me.wrote
    /\ resp.body.role # StoredRole(Bob.id)
    /\ Outdated # {}

(***************************************************************************)
(* SpecGuard: the seven contact operations called with alice's access      *)
(* token and with tokens that name no user: expired, forged, without a     *)
(* user_id, not a JWT, empty.                                              *)
(***************************************************************************)
GuardTokens == {AccessOf(Alice)} \cup BadTokens

\* A payload with the email of a stored contact, and one with a new email.
GuardPayloads ==
    {ContactPayload(<<"C", "y">>, <<"O", "r", "r">>, AnnLee.email, <<"3", "3">>,
                    Date(1985, 12, 31), ""),
     ContactPayload(<<"D", "i">>, <<"P", "o">>, <<"d", "@", "c">>, <<"4", "4">>,
                    Date(1990, 6, 12), "")}

GuardIds == 1..3

InitGuard ==
    /\ users = {Alice, Bob}
    /\ contacts \in {{AnnLee}, {AnnLee, NanEll}}
    /\ contactSeq = 3
    /\ cache = {}
    /\ redisUp = TRUE
    /\ now = 0
    /\ today = Date(2024, 6, 10)
    /\ env \in {DefaultEnv, TestEnv}
    /\ resp = NoResp
    /\ purpose = "none"
    /\ inflight = NoRequests
    /\ uploads = {}

GuardCreate ==
    \E t \in GuardTokens, p \in GuardPayloads :
        create_contact(p, t.tok) /\ purpose' = t.purpose /\ ContactsFrame

GuardList ==
    \E t \in GuardTokens :
        get_contacts(0, 100, t.tok) /\ purpose' = t.purpose /\ ContactsFrame

GuardGet ==
    \E t \in GuardTokens, id \in GuardIds :
        get_contact(id, t.tok) /\ purpose' = t.purpose /\ ContactsFrame

GuardUpdate ==
    \E t \in GuardTokens, id \in GuardIds, p \in GuardPayloads :
        update_contact(id, p, t.tok) /\ purpose' = t.purpose /\ ContactsFrame

GuardDelete ==
    \E t \in GuardTokens, id \in GuardIds :
        delete_contact(id, t.tok) /\ purpose' = t.purpose /\ ContactsFrame

GuardSearch ==
    \E t \in GuardTokens, query \in {<<"n">>, <<"o">>, <<"z">>} :
        search_contacts(query, t.tok) /\ purpose' = t.purpose /\ ContactsFrame

GuardBirthdays ==
    \E t \in GuardTokens :
        get_upcoming_birthdays(t.tok) /\ purpose' = t.purpose /\ ContactsFrame

NextGuard ==
    \/ GuardCreate
    \/ GuardList
    \/ GuardGet
    \/ GuardUpdate
    \/ GuardDelete
    \/ GuardSearch
    \/ GuardBirthdays

SpecGuard == InitGuard /\ [][NextGuard]_vars

(***************************************************************************)
(* C28: create, list, get, update, delete, search and upcoming-birthdays   *)
(* called with a token that is empty, not a JWT, forged, expired or        *)
(* without a user_id answer 401 whatever the contacts table holds (409 and *)
(* 404 are never the answer, also not for an email in use or an absent     *)
(* id) and leave the table as it was.                                      *)
(***************************************************************************)
GuardedOps == ContactOps \cup {"search_contacts"}

GuardStep ==
    LET r == resp'
    IN  (r.op \in GuardedOps /\ purpose' \in Undecodable \cup {"nouid"}) =>
            /\ r.status = HTTP_401_UNAUTHORIZED
            /\ r.detail = "Invalid or missing access token"
            /\ r.body = NoneVal
            /\ UNCHANGED <<contacts, contactSeq>>

C28_BadTokenBeforeRepository == [][GuardStep]_vars

\* create_contact with an expired token and the email of a stored contact
\* was answered 401.
C28_Witness ==
    /\ resp.op = "create_contact"
    /\ purpose = "expired"
    /\ \E c \in contacts : c.email = resp.req.contact.email
    /\ resp.status = HTTP_401_UNAUTHORIZED

(***************************************************************************)
(* SpecRegisterRace: two POST /users/register requests served              *)
(* concurrently.  Each advances by the statements of create_user that      *)
(* touch the users table: the email lookup, the username lookup, the       *)
(* insert with its commit.  The unique indexes of users.email and          *)
(* users.username are enforced by the database at the commit.              *)
(***************************************************************************)
Registrants == {"a", "b"}

RegisterFrame == UNCHANGED <<uploads, contacts, contactSeq, redisUp, now, today, env>>

\* The second payload shares the email, the username, both or neither.
RacePayloads ==
    {[username |-> u, email |-> e, password |-> "pw2"] :
        u \in {"alice", "al"}, e \in {"alice@x.com", "al@x.com"}}

InitRegisterRace ==
    /\ users \in {{}, {[Bob EXCEPT !.id = 1]}}
    /\ contacts = {}
    /\ contactSeq = 0
    /\ cache = {}
    /\ redisUp = TRUE
    /\ now = 0
    /\ today = Date(2024, 6, 10)
    /\ env = DefaultEnv
    /\ resp = NoResp
    /\ purpose = "none"
    /\ uploads = {}
    /\ \E second \in RacePayloads :
            inflight =
                [a |-> [pc |-> "email", salt |-> "s1", status |-> 0,
                        user |-> [username |-> "alice", email |-> "alice@x.com",
                                  password |-> "pw1"]],
                 b |-> [pc |-> "email", user |-> second, salt |-> "s2", status |-> 0]]

\* The request `r` is answered with `result`.
Answered(r, result) ==
    /\ inflight' = [inflight EXCEPT ![r] = [@ EXCEPT !.pc = "done", !.status = result.status]]
    /\ resp' = Outcome("register", [user |-> inflight[r].user], result)

\* create_user, line 31-32
RegisterCheckEmail ==
    \E r \in Registrants :
        /\ inflight[r].pc = "email"
        /\ IF ByEmail(users, inflight[r].user.email) # {}
           THEN Answered(r, Raise(HTTP_409_CONFLICT, "Email already registered"))
           ELSE /\ inflight' = [inflight EXCEPT ![r] = [@ EXCEPT !.pc = "username"]]
                /\ UNCHANGED resp
        /\ UNCHANGED <<users, cache, purpose>> /\ RegisterFrame

\* create_user, line 33-34
RegisterCheckUsername ==
    \E r \in Registrants :
        /\ inflight[r].pc = "username"
        /\ IF ByUsername(users, inflight[r].user.username) # {}
           THEN Answered(r, Raise(HTTP_409_CONFLICT, "Username already taken"))
           ELSE /\ inflight' = [inflight EXCEPT ![r] = [@ EXCEPT !.pc = "insert"]]
                /\ UNCHANGED resp
        /\ UNCHANGED <<users, cache, purpose>> /\ RegisterFrame

\* sqlalchemy.exc.IntegrityError, which neither create_user nor the route catches
IntegrityError == Raise(HTTP_500_INTERNAL_SERVER_ERROR, "IntegrityError")

\* create_user, line 35-43, and the route's 201
RegisterInsert ==
    \E r \in Registrants :
        LET user == inflight[r].user
            db_user == UserRow(Cardinality(users) + 1, user.username, user.email,
                               get_password_hash(user.password, inflight[r].salt), "user")
        IN  /\ inflight[r].pc = "insert"
            /\ IF ByEmail(users, user.email) # {} \/ ByUsername(users, user.username) # {}
               THEN Answered(r, IntegrityError) /\ UNCHANGED users
               ELSE /\ users' = users \cup {db_user}
                    /\ Answered(r, WithStatus(Return(UserOut(db_user)), 201))
            /\ UNCHANGED <<cache, purpose>> /\ RegisterFrame

NextRegisterRace ==
    \/ RegisterCheckEmail
    \/ RegisterCheckUsername
    \/ RegisterInsert

SpecRegisterRace == InitRegisterRace /\ [][NextRegisterRace]_vars

(***************************************************************************)
(* C30: when two concurrent register requests with the same email or the   *)
(* same username have both been answered, exactly one user has that email  *)
(* (username), one request was answered 201 and the other 409.             *)
(***************************************************************************)
C30_ConcurrentRegister ==
    LET a == inflight.a
        b == inflight.b
    IN  (a.pc = "done" /\ b.pc = "done") =>
            /\ a.user.email = b.user.email =>
                    /\ Cardinality(ByEmail(users, a.user.email)) = 1
                    /\ {a.status, b.status} = {201, HTTP_409_CONFLICT}
            /\ a.user.username = b.user.username =>
                    /\ Cardinality(ByUsername(users, a.user.username)) = 1
                    /\ {a.status, b.status} = {201, HTTP_409_CONFLICT}

====
